---- MODULE Spec2Model ----
(***************************************************************************)
(* Model of the text block parser of package tbp (txtblockparsing.go).     *)
(* A line is a sequence of one-character strings, a Block is a sequence of *)
(* lines, a compiled regular expression is a sequence of elements that is  *)
(* matched from the start of the line (every pattern of the model begins   *)
(* with ^).                                                                *)
(***************************************************************************)
EXTENDS Integers, Sequences, FiniteSets, TLC

VARIABLES
    b,          \* the receiver *b of the call: the input lines
    s,          \* the start pattern handed to the call
    e0,         \* the end pattern handed to the call (NilRe: none)
    op,         \* the operation called: "none", "FetchBlock", "Cut", "Segment"
    pc,         \* "idle", "loop" (inside FetchBlock's range loop), "done", "panic"
    i,          \* FetchBlock: 1-based index of the line the loop stands at
    inBlock,    \* FetchBlock: flag to mark for search end pattern
    block,      \* FetchBlock: the open block (*block)
    e,          \* FetchBlock: the local e, overwritten by the derived pattern
    blocks,     \* the returned blocks
    titleCatch, \* the returned titleCatch
    opens,      \* history: indices of the lines that opened a block, in order
    pat,        \* the pattern p handed to a match operation
    found,      \* the flag a match operation returns
    res,        \* the value a match operation, RemoveFromBlock or DiffFormat returns
    dp,         \* the map p handed to DiffFormat
    b0,         \* history: the receiver before the first Trim or RmPeriod
    hist,       \* history: the post-processing calls made, in order
    heap,       \* backing arrays: heap[a] is the cells of array a
    src,        \* the slice header of the receiver (array, len, cap)
    rets,       \* the slice headers of the blocks a call returned
    arg,        \* the argument of a call of package util
    ret,        \* the value a call of package util returned
    fd,         \* StrInterpolate: the matches fd
    ei,         \* StrInterpolate: the index of elem in fd
    ks,         \* StrInterpolate: the local ks
    start,      \* StrInterpolate: the local start
    rlist,      \* StrInterpolate: the local r
    ver,        \* which copy of the auth middleware serves the requests
    apiToken,   \* the field Token of the API value
    apiClaims,  \* the field Claims of the API value
    rq          \* the requests: credentials, position, context, response

\* the variables of the block extraction calls
parseVars == <<i, inBlock, block, e, blocks, titleCatch, opens>>

\* the variables of the match and post-processing calls
matchVars == <<pat, found, res, dp, b0, hist>>

\* the variables of the memory model
memVars == <<heap, src, rets>>

\* the variables of the calls of package util
utilVars == <<arg, ret, fd, ei, ks, start, rlist>>

\* the variables of the auth middleware
apiVars == <<ver, apiToken, apiClaims, rq>>

extVars == <<utilVars, apiVars>>

vars == <<b, s, e0, op, pc, i, inBlock, block, e, blocks, titleCatch, opens,
          pat, found, res, dp, b0, hist, heap, src, rets,
          arg, ret, fd, ei, ks, start, rlist, ver, apiToken, apiClaims, rq>>

----------------------------------------------------------------------------
(* Bounds *)

\* longest input (number of lines) drawn from LineSet
MaxLines == 4

\* longest input (number of lines) drawn from PostLineSet
MaxPostLines == 3

\* longest input (number of lines) drawn from PeriodLineSet
MaxPeriodLines == 2

\* most Trim and RmPeriod calls made on one block
MaxCalls == 2

\* the longest receiver of the calls whose backing arrays are followed
MaxMemLines == 3

\* the longest text of a first capture group, and the longest line the
\* pattern derived from it is tried on
MaxCaptureLen == 2

MaxDeriveLine == 3

\* the longest list of maps handed to SortMapByField
MaxMaps == 3

\* the most pieces an input of StrInterpolate is put together from
MaxPieces == 2

\* the most items the model lets the range loop of StrInterpolate put in ks
MaxKs == 7

\* the largest number of days in an input of StringToDuration
MaxDays == 3

----------------------------------------------------------------------------
(* Characters and lines *)

\* the characters \s stands for: [\t\n\f\r ]
SpaceChars == {" ", "\t", "\n", "\f", "\r"}

\* the characters the escape table of FetchBlock covers
MetaChars == {".", "^", "$", "*", "+", "?", "{", "}", "[", "]", "|", "(", ")"}

Digits == {"0", "1", "2", "3", "4", "5", "6", "7", "8", "9"}

Letters == {"a", "b", "c", "d", "e", "f", "g", "h", "i", "j", "k", "l", "m",
            "n", "o", "p", "q", "r", "s", "t", "u", "v", "w", "x", "y", "z",
            "A", "B", "C", "D", "E", "F", "G", "H", "I", "J", "K", "L", "M",
            "N", "O", "P", "Q", "R", "S", "T", "U", "V", "W", "X", "Y", "Z"}

WordChars == Letters \cup Digits \cup {"_"}

\* regexp.MustCompile(`^\s*$`).MatchString(line)
IsBlankLine(line) == \A k \in 1..Len(line) : line[k] \in SpaceChars

----------------------------------------------------------------------------
(* Compiled patterns.  An element is                                       *)
(*   lit  : the character c                                                *)
(*   cls  : one character of the Perl class c (s S d D w W)                *)
(*   sp*  : ` *`, a greedy run of blanks                                   *)
(*   lit? : the character c, or nothing (`a?`)                             *)
(*   eol  : `$`                                                            *)
(*   any  : `.`                                                            *)
(* and g is the capture group the element lies in (0: none).               *)

Lit(c, g) == [k |-> "lit", c |-> c, g |-> g]
Cls(c, g) == [k |-> "cls", c |-> c, g |-> g]
SpStar(g) == [k |-> "sp*", c |-> "", g |-> g]
Opt(c, g) == [k |-> "lit?", c |-> c, g |-> g]
Eol == [k |-> "eol", c |-> "", g |-> 0]

\* `.`: any character but a newline
AnyChar == [k |-> "any", c |-> "", g |-> 0]

\* a *regexp.Regexp: elems after the leading ^, ng capture groups
Re(elems, ng) == [elems |-> elems, ng |-> ng, nil |-> FALSE]

\* the nil *regexp.Regexp
NilRe == [elems |-> <<>>, ng |-> 0, nil |-> TRUE]

\* FindStringSubmatch returning nil
NoMatch == <<>>

ClassHas(c, ch) ==
    CASE c = "s" -> ch \in SpaceChars
      [] c = "S" -> ch \notin SpaceChars
      [] c = "d" -> ch \in Digits
      [] c = "D" -> ch \notin Digits
      [] c = "w" -> ch \in WordChars
      [] c = "W" -> ch \notin WordChars
      [] OTHER -> FALSE

RECURSIVE SpaceRun(_, _)
\* the length of the run of blanks of line that begins at pos
SpaceRun(line, pos) ==
    IF pos <= Len(line) /\ line[pos] = " " THEN 1 + SpaceRun(line, pos + 1) ELSE 0

\* the number of characters element el takes at pos, -1 when it fails there
Take(el, line, pos) ==
    CASE el.k = "lit" -> IF pos <= Len(line) /\ line[pos] = el.c THEN 1 ELSE -1
      [] el.k = "cls" -> IF pos <= Len(line) /\ ClassHas(el.c, line[pos]) THEN 1 ELSE -1
      [] el.k = "sp*" -> SpaceRun(line, pos)
      [] el.k = "lit?" -> IF pos <= Len(line) /\ line[pos] = el.c THEN 1 ELSE 0
      [] el.k = "eol" -> IF pos = Len(line) + 1 THEN 0 ELSE -1
      [] el.k = "any" -> IF pos <= Len(line) /\ line[pos] # "\n" THEN 1 ELSE -1

RECURSIVE MatchFrom(_, _, _, _, _)
\* match elems[k..] at pos; caps[g+1] is the text of group g so far (g = 0: the match)
MatchFrom(elems, k, line, pos, caps) ==
    IF k > Len(elems) THEN caps
    ELSE LET n == Take(elems[k], line, pos)
             txt == SubSeq(line, pos, pos + n - 1)
             g == elems[k].g
         IN IF n < 0 THEN NoMatch
            ELSE MatchFrom(elems, k + 1, line, pos + n,
                     [x \in 1..Len(caps) |->
                         IF x = 1 \/ x = g + 1 THEN caps[x] \o txt ELSE caps[x]])

\* p.FindStringSubmatch(line): NoMatch, or <<match, group 1, ..., group ng>>
FindStringSubmatch(p, line) ==
    MatchFrom(p.elems, 1, line, 1, [x \in 1..(p.ng + 1) |-> <<>>])

\* p.MatchString(line)
MatchString(p, line) == FindStringSubmatch(p, line) # NoMatch

----------------------------------------------------------------------------
(* The end pattern FetchBlock derives from the first capture group *)

\* an element of a pattern string that regexp.MustCompile rejects
ErrElem == [k |-> "err", c |-> "", g |-> 0]

RECURSIVE Escape(_)
\* re.ReplaceAllStringFunc(l[1], ...): a backslash before every character of the table
Escape(str) ==
    IF str = <<>> THEN <<>>
    ELSE (IF Head(str) \in MetaChars THEN <<"\\", Head(str)>> ELSE <<Head(str)>>)
             \o Escape(Tail(str))

RECURSIVE Parse(_, _)
\* the elements of the pattern string str[k..], as the regexp parser reads the
\* escapes that can follow Escape: a class, a control character, an escaped
\* punctuation character, an unknown escape (an error), a plain character.
\* A `.` that an escaped backslash left bare is the any-character element;
\* no other character of the table occurs bare in the inputs
Parse(str, k) ==
    IF k > Len(str) THEN <<>>
    ELSE IF str[k] = "\\"
         THEN IF k = Len(str) THEN <<ErrElem>>
              ELSE LET x == str[k + 1]
                   IN CASE x \in {"s", "S", "d", "D", "w", "W"} ->
                               <<Cls(x, 0)>> \o Parse(str, k + 2)
                        [] x = "t" -> <<Lit("\t", 0)>> \o Parse(str, k + 2)
                        [] x = "n" -> <<Lit("\n", 0)>> \o Parse(str, k + 2)
                        [] x = "f" -> <<Lit("\f", 0)>> \o Parse(str, k + 2)
                        [] x = "r" -> <<Lit("\r", 0)>> \o Parse(str, k + 2)
                        [] x \in (Letters \cup Digits) \ {"s", "S", "d", "D", "w", "W", "t", "n", "f", "r"} ->
                               <<ErrElem>>
                        [] OTHER -> <<Lit(x, 0)>> \o Parse(str, k + 2)
         ELSE IF str[k] = "." THEN <<AnyChar>> \o Parse(str, k + 1)
         ELSE IF str[k] \in MetaChars THEN <<ErrElem>>
         ELSE <<Lit(str[k], 0)>> \o Parse(str, k + 1)

\* regexp.MustCompile(`^` + escp + `\S`) failed (it panics)
CompileFails(p) == \E k \in 1..Len(p.elems) : p.elems[k] = ErrElem

\* DeriveEnd without the trailing `\S`
DeriveEndNoS(g1) == Re(Parse(Escape(g1), 1), 0)

\* regexp.MustCompile(`^` + escp + `\S`) for escp = Escape(g1)
DeriveEnd(g1) == Re(Parse(Escape(g1) \o <<"\\", "S">>, 1), 0)

----------------------------------------------------------------------------
(* Inputs *)

\* the lines the inputs are drawn from: empty, "a", "b", " a", " b"
LineSet == {<<>>, <<"a">>, <<"b">>, <<" ", "a">>, <<" ", "b">>}

\* `^ *a`: no capture group
StartNoGroup == Re(<<SpStar(0), Lit("a", 0)>>, 0)
\* `^( *)a`: the indentation is the first capture group
StartIndent == Re(<<SpStar(1), Lit("a", 0)>>, 1)
\* `^( *)(\S)`: two capture groups, matches every non-blank line
StartTitle == Re(<<SpStar(1), Cls("S", 2)>>, 2)
\* `^( *)`: matches every line
StartAny == Re(<<SpStar(1)>>, 1)

StartPatterns == {StartNoGroup, StartIndent, StartTitle, StartAny}

\* `^b`
EndB == Re(<<Lit("b", 0)>>, 0)
\* `^a`
EndA == Re(<<Lit("a", 0)>>, 0)
\* `^ *$`: matches the blank lines
EndBlank == Re(<<SpStar(0), Eol>>, 0)

EndPatterns == {NilRe, EndB, EndA, EndBlank}

SmallInputs == UNION {[1..n -> LineSet] : n \in 0..MaxLines}

\* the five lines of the tabular scenario
ScenarioLines == <<
    <<"I", "n", "t", "e", "r", "f", "a", "c", "e", " ", " ", " ", "S", "t", "a", "t", "u", "s", " ", " ", " ", "P", "r", "o", "t", "o", "c", "o", "l">>,
    <<"G", "i", "0", "/", "1", " ", " ", " ", " ", " ", " ", " ", "u", "p", " ", " ", " ", " ", " ", " ", " ", "u", "p">>,
    <<"G", "i", "0", "/", "2", " ", " ", " ", " ", " ", " ", " ", "d", "o", "w", "n", " ", " ", " ", " ", " ", "d", "o", "w", "n">>,
    <<"I", "n", "t", "e", "r", "f", "a", "c", "e", " ", " ", " ", "S", "t", "a", "t", "u", "s", " ", " ", " ", "P", "r", "o", "t", "o", "c", "o", "l">>,
    <<"G", "i", "1", "/", "1", " ", " ", " ", " ", " ", " ", " ", "u", "p", " ", " ", " ", " ", " ", " ", " ", "u", "p">> >>

Word == <<"I", "n", "t", "e", "r", "f", "a", "c", "e">>

\* `^(Inter)face`, ...: the word with its first k characters as capture group 1
WordPrefixRe(k) ==
    Re([x \in 1..Len(Word) |-> Lit(Word[x], IF x <= k THEN 1 ELSE 0)], 1)

\* `^Interface`: the word, no capture group
WordRe == Re([x \in 1..Len(Word) |-> Lit(Word[x], 0)], 0)

\* `^a`: no capture group
MatchA == Re(<<Lit("a", 0)>>, 0)
\* `^(a)?(b)`: the first group takes no part in the match of "b"
MatchOpt == Re(<<Opt("a", 1), Lit("b", 2)>>, 2)

\* the patterns handed to the match operations
MatchPatterns == {MatchA, StartIndent, StartTitle, MatchOpt}

ScenarioPatterns == {WordPrefixRe(k) : k \in 1..Len(Word)} \cup {WordRe}

----------------------------------------------------------------------------
(* MatchInBlock, Copy *)

RECURSIVE MatchRowsWhole(_, _)
\* MatchRows appending l, the match included, instead of l[1:]
MatchRowsWhole(blk, p) ==
    IF blk = <<>> THEN <<>>
    ELSE LET l == FindStringSubmatch(p, Head(blk))
         IN (IF l # NoMatch THEN <<l>> ELSE <<>>) \o MatchRowsWhole(Tail(blk), p)

RECURSIVE MatchRows(_, _)
\* the r of MatchInBlock: l[1:] of every matching line, in line order
MatchRows(blk, p) ==
    IF blk = <<>> THEN <<>>
    ELSE LET l == FindStringSubmatch(p, Head(blk))
         IN (IF l # NoMatch THEN <<Tail(l)>> ELSE <<>>) \o MatchRows(Tail(blk), p)

\* b.MatchInBlock(p)
MatchInBlock(blk, p) ==
    [m |-> \E k \in 1..Len(blk) : MatchString(p, blk[k]), r |-> MatchRows(blk, p)]

\* b.Copy(): a new block with the same lines
Copy(blk) == [k \in 1..Len(blk) |-> blk[k]]

----------------------------------------------------------------------------
(* SoloMatchInBlock, SliceMatchInBlock, RemoveFromBlock *)

\* SoloMatchInBlock with the first capture of the last matching line
SoloMatchLast(blk, p) ==
    LET mt == MatchInBlock(blk, p)
    IN IF ~mt.m THEN [m |-> FALSE, r |-> <<>>, panic |-> FALSE]
       ELSE IF mt.r[Len(mt.r)] = <<>> THEN [m |-> FALSE, r |-> <<>>, panic |-> TRUE]
       ELSE [m |-> TRUE, r |-> mt.r[Len(mt.r)][1], panic |-> FALSE]

\* b.SoloMatchInBlock(p): mv[0][0] is out of range for a pattern without groups
SoloMatchInBlock(blk, p) ==
    LET mt == MatchInBlock(blk, p)
    IN IF ~mt.m THEN [m |-> FALSE, r |-> <<>>, panic |-> FALSE]
       ELSE IF mt.r[1] = <<>> THEN [m |-> FALSE, r |-> <<>>, panic |-> TRUE]
       ELSE [m |-> TRUE, r |-> mt.r[1][1], panic |-> FALSE]

\* b.SliceMatchInBlock(p): l[0] is out of range for a pattern without groups
SliceMatchInBlock(blk, p) ==
    LET mt == MatchInBlock(blk, p)
    IN IF ~mt.m THEN [m |-> FALSE, r |-> <<>>, panic |-> FALSE]
       ELSE IF mt.r[1] = <<>> THEN [m |-> FALSE, r |-> <<>>, panic |-> TRUE]
       ELSE [m |-> TRUE, r |-> [k \in 1..Len(mt.r) |-> mt.r[k][1]], panic |-> FALSE]

RECURSIVE RemoveLoopKeepMatched(_, _)
\* RemoveLoop with the branches exchanged: the matched lines are kept
RemoveLoopKeepMatched(blk, p) ==
    IF blk = <<>> THEN <<>>
    ELSE (IF FindStringSubmatch(p, Head(blk)) # NoMatch THEN <<Head(blk)>> ELSE <<>>)
             \o RemoveLoopKeepMatched(Tail(blk), p)

RECURSIVE RemoveLoop(_, _)
\* the nb of RemoveFromBlock: the lines that do not match, in order
RemoveLoop(blk, p) ==
    IF blk = <<>> THEN <<>>
    ELSE (IF FindStringSubmatch(p, Head(blk)) # NoMatch THEN <<>> ELSE <<Head(blk)>>)
             \o RemoveLoop(Tail(blk), p)

\* b.RemoveFromBlock(p)
RemoveFromBlock(blk, p) ==
    [m |-> \E k \in 1..Len(blk) : FindStringSubmatch(p, blk[k]) # NoMatch,
     r |-> RemoveLoop(blk, p)]

\* b.MatchInBlock(pat)
CallMatchInBlock ==
    /\ pc = "idle"
    /\ op' = "MatchInBlock"
    /\ pc' = "done"
    /\ found' = MatchInBlock(b, pat).m
    /\ res' = MatchInBlock(b, pat).r
    /\ UNCHANGED <<b, s, e0, pat, dp, b0, hist, parseVars, memVars, extVars>>

\* b.SoloMatchInBlock(pat)
CallSoloMatchInBlock ==
    /\ pc = "idle"
    /\ op' = "SoloMatchInBlock"
    /\ LET out == SoloMatchInBlock(b, pat)
       IN /\ pc' = IF out.panic THEN "panic" ELSE "done"
          /\ found' = out.m
          /\ res' = out.r
    /\ UNCHANGED <<b, s, e0, pat, dp, b0, hist, parseVars, memVars, extVars>>

\* b.SliceMatchInBlock(pat)
CallSliceMatchInBlock ==
    /\ pc = "idle"
    /\ op' = "SliceMatchInBlock"
    /\ LET out == SliceMatchInBlock(b, pat)
       IN /\ pc' = IF out.panic THEN "panic" ELSE "done"
          /\ found' = out.m
          /\ res' = out.r
    /\ UNCHANGED <<b, s, e0, pat, dp, b0, hist, parseVars, memVars, extVars>>

\* b.RemoveFromBlock(pat)
CallRemoveFromBlock ==
    /\ pc = "idle"
    /\ op' = "RemoveFromBlock"
    /\ pc' = "done"
    /\ found' = RemoveFromBlock(b, pat).m
    /\ res' = RemoveFromBlock(b, pat).r
    /\ UNCHANGED <<b, s, e0, pat, dp, b0, hist, parseVars, memVars, extVars>>

----------------------------------------------------------------------------
(* FetchBlock *)

\* CloseBlock with the end line appended to the block it closes
CloseBlockIncl(bs, blk, line) == Append(bs, Append(blk, line))

\* found end line: save the block (the end line is not part of it)
CloseBlock(bs, blk, line) == Append(bs, blk)

\* loop to the end, and no end pattern matched: i == len(*b)-1
FlushAtLast(bs, blk, idx, n) == IF idx = n THEN Append(bs, blk) ELSE bs

\* save title catch: l[2:] if len(l) > 2, else nil (<<>>)
TitleOf(l) == IF Len(l) > 2 THEN SubSeq(l, 3, Len(l)) ELSE <<>>

\* CollapseTitles without the check: the list of nils is returned as it is
CollapseTitlesKeep(tc) == tc

\* set titleCatch as nil if no title matched at all
CollapseTitles(tc) == IF \E k \in 1..Len(tc) : tc[k] # <<>> THEN tc ELSE <<>>

\* the call b.FetchBlock(s, e0): the locals before the loop
CallFetchBlock ==
    /\ pc = "idle"
    /\ op' = "FetchBlock"
    /\ pc' = "loop"
    /\ i' = 1
    /\ inBlock' = FALSE
    /\ block' = <<>>
    /\ e' = e0
    /\ blocks' = <<>>
    /\ titleCatch' = <<>>
    /\ opens' = <<>>
    /\ UNCHANGED <<b, s, e0>>
    /\ UNCHANGED <<matchVars, memVars, extVars>>

\* one iteration of `for i, line := range *b`
FetchLine ==
    /\ pc = "loop"
    /\ op = "FetchBlock"
    /\ i <= Len(b)
    /\ LET line == b[i]
           atEnd == inBlock /\ MatchString(e, line)
           l == FindStringSubmatch(s, line)
           derived == IF e = NilRe /\ Len(l) >= 2 THEN DeriveEnd(l[2]) ELSE e
       IN IF IsBlankLine(line)
          THEN \* skip empty or space only line
               /\ i' = i + 1
               /\ UNCHANGED <<pc, inBlock, block, e, blocks, titleCatch, opens>>
          ELSE IF inBlock /\ ~atEnd
          THEN \* not the end line: save this line
               /\ block' = Append(block, line)
               /\ blocks' = FlushAtLast(blocks, block', i, Len(b))
               /\ i' = i + 1
               /\ UNCHANGED <<pc, inBlock, e, titleCatch, opens>>
          ELSE IF l = NoMatch
          THEN \* an end line, or a line outside a block, that starts nothing
               /\ inBlock' = FALSE
               /\ blocks' = IF atEnd THEN CloseBlock(blocks, block, line) ELSE blocks
               /\ i' = i + 1
               /\ UNCHANGED <<pc, block, e, titleCatch, opens>>
          ELSE IF e = NilRe /\ (Len(l) < 2 \/ CompileFails(derived))
          THEN \* l[1] is out of range, or MustCompile panics
               /\ pc' = "panic"
               /\ UNCHANGED <<i, inBlock, block, e, blocks, titleCatch, opens>>
          ELSE \* found start line
               /\ inBlock' = TRUE
               /\ blocks' = IF atEnd THEN CloseBlock(blocks, block, line) ELSE blocks
               /\ e' = derived
               /\ titleCatch' = Append(titleCatch, TitleOf(l))
               /\ block' = <<line>>
               /\ opens' = Append(opens, i)
               /\ i' = i + 1
               /\ UNCHANGED pc
    /\ UNCHANGED <<b, s, e0, op>>
    /\ UNCHANGED <<matchVars, memVars, extVars>>

\* after the loop: the titleCatch check and the return
FetchReturn ==
    /\ pc = "loop"
    /\ op = "FetchBlock"
    /\ i > Len(b)
    /\ titleCatch' = CollapseTitles(titleCatch)
    /\ pc' = "done"
    /\ UNCHANGED <<b, s, e0, op, i, inBlock, block, e, blocks, opens>>
    /\ UNCHANGED <<matchVars, memVars, extVars>>

----------------------------------------------------------------------------
(* Cut and Segment *)

RECURSIVE CutLoopNoLast(_, _, _, _, _)
\* CutLoop without the append of the last segment after the loop
CutLoopNoLast(lines, sp, k, pblocks, pblock) ==
    IF k > Len(lines) THEN pblocks
    ELSE IF MatchString(sp, lines[k])
         THEN CutLoopNoLast(lines, sp, k + 1, Append(pblocks, pblock), <<lines[k]>>)
         ELSE CutLoopNoLast(lines, sp, k + 1, pblocks, Append(pblock, lines[k]))

RECURSIVE CutLoopLineFirst(_, _, _, _, _)
\* CutLoop with the line appended before the start test, as Segment does
CutLoopLineFirst(lines, sp, k, pblocks, pblock) ==
    IF k > Len(lines) THEN Append(pblocks, pblock)
    ELSE IF MatchString(sp, lines[k])
         THEN CutLoopLineFirst(lines, sp, k + 1, Append(pblocks, Append(pblock, lines[k])), <<>>)
         ELSE CutLoopLineFirst(lines, sp, k + 1, pblocks, Append(pblock, lines[k]))

RECURSIVE CutLoop(_, _, _, _, _)
\* the first loop of Cut from line k on, and the append that follows it
CutLoop(lines, sp, k, pblocks, pblock) ==
    IF k > Len(lines) THEN Append(pblocks, pblock)
    ELSE IF MatchString(sp, lines[k])
         THEN CutLoop(lines, sp, k + 1, Append(pblocks, pblock), <<lines[k]>>)
         ELSE CutLoop(lines, sp, k + 1, pblocks, Append(pblock, lines[k]))

RECURSIVE SegmentLoopExcl(_, _, _, _, _)
\* SegmentLoop with the end line opening the next segment
SegmentLoopExcl(lines, ep, k, pblocks, pblock) ==
    IF k > Len(lines) THEN Append(pblocks, pblock)
    ELSE IF MatchString(ep, lines[k])
         THEN SegmentLoopExcl(lines, ep, k + 1, Append(pblocks, pblock), <<lines[k]>>)
         ELSE SegmentLoopExcl(lines, ep, k + 1, pblocks, Append(pblock, lines[k]))

RECURSIVE SegmentLoopNoTail(_, _, _, _, _)
\* SegmentLoop without the append of the trailing segment after the loop
SegmentLoopNoTail(lines, ep, k, pblocks, pblock) ==
    IF k > Len(lines) THEN pblocks
    ELSE IF MatchString(ep, lines[k])
         THEN SegmentLoopNoTail(lines, ep, k + 1, Append(pblocks, Append(pblock, lines[k])), <<>>)
         ELSE SegmentLoopNoTail(lines, ep, k + 1, pblocks, Append(pblock, lines[k]))

RECURSIVE SegmentLoop(_, _, _, _, _)
\* the first loop of Segment from line k on, and the append that follows it
SegmentLoop(lines, ep, k, pblocks, pblock) ==
    IF k > Len(lines) THEN Append(pblocks, pblock)
    ELSE IF MatchString(ep, lines[k])
         THEN SegmentLoop(lines, ep, k + 1, Append(pblocks, Append(pblock, lines[k])), <<>>)
         ELSE SegmentLoop(lines, ep, k + 1, pblocks, Append(pblock, lines[k]))

RECURSIVE KeepBlocks(_, _)
\* only save the segment contains the start line: the blocks
KeepBlocks(pblocks, sp) ==
    IF pblocks = <<>> THEN <<>>
    ELSE (IF MatchInBlock(Head(pblocks), sp).m THEN <<Copy(Head(pblocks))>> ELSE <<>>)
             \o KeepBlocks(Tail(pblocks), sp)

RECURSIVE KeepTitlesLast(_, _)
\* KeepTitles taking the captures of the last matching line of each segment
KeepTitlesLast(pblocks, sp) ==
    IF pblocks = <<>> THEN <<>>
    ELSE (LET mt == MatchInBlock(Head(pblocks), sp)
          IN IF mt.m THEN <<mt.r[Len(mt.r)]>> ELSE <<>>)
             \o KeepTitlesLast(Tail(pblocks), sp)

RECURSIVE KeepTitles(_, _)
\* only save the segment contains the start line: title[0] of each
KeepTitles(pblocks, sp) ==
    IF pblocks = <<>> THEN <<>>
    ELSE (LET mt == MatchInBlock(Head(pblocks), sp)
          IN IF mt.m THEN <<mt.r[1]>> ELSE <<>>)
             \o KeepTitles(Tail(pblocks), sp)

\* the blocks b.Segment(sp, ep) returns
SegmentBlocks(lines, sp, ep) == KeepBlocks(SegmentLoop(lines, ep, 1, <<>>, <<>>), sp)

\* b.Cut(s)
CallCut ==
    /\ pc = "idle"
    /\ op' = "Cut"
    /\ pc' = "done"
    /\ LET pblocks == CutLoop(b, s, 1, <<>>, <<>>)
       IN /\ blocks' = KeepBlocks(pblocks, s)
          /\ titleCatch' = KeepTitles(pblocks, s)
    /\ UNCHANGED <<b, s, e0, i, inBlock, block, e, opens>>
    /\ UNCHANGED <<matchVars, memVars, extVars>>

\* b.Segment(s, e0); e.MatchString on the nil pattern is a nil dereference
CallSegment ==
    /\ pc = "idle"
    /\ op' = "Segment"
    /\ IF e0 = NilRe /\ Len(b) > 0
       THEN /\ pc' = "panic"
            /\ UNCHANGED <<blocks, titleCatch>>
       ELSE /\ pc' = "done"
            /\ blocks' = SegmentBlocks(b, s, e0)
            /\ titleCatch' = KeepTitles(SegmentLoop(b, e0, 1, <<>>, <<>>), s)
    /\ UNCHANGED <<b, s, e0, i, inBlock, block, e, opens>>
    /\ UNCHANGED <<matchVars, memVars, extVars>>

----------------------------------------------------------------------------
(* Trim, RmPeriod, DiffFormat *)

\* the cutset of strings.TrimRight(l, " \n\t\r")
CutSet == {" ", "\n", "\t", "\r"}

RECURSIVE TrimRight(_)
\* strings.TrimRight(l, " \n\t\r")
TrimRight(l) ==
    IF l # <<>> /\ l[Len(l)] \in CutSet THEN TrimRight(SubSeq(l, 1, Len(l) - 1)) ELSE l

\* strings.TrimSpace(nl) == "": every character is white space (of the
\* characters of the model the white space is SpaceChars)
TrimSpaceIsEmpty(nl) == \A k \in 1..Len(nl) : nl[k] \in SpaceChars

RECURSIVE TrimLoopForgets(_, _)
\* TrimLoop with lastEmpty cleared when an empty line is skipped
TrimLoopForgets(blk, lastEmpty) ==
    IF blk = <<>> THEN <<>>
    ELSE LET nl == TrimRight(Head(blk))
         IN IF TrimSpaceIsEmpty(nl)
            THEN IF lastEmpty THEN TrimLoopForgets(Tail(blk), FALSE)
                 ELSE << <<>> >> \o TrimLoopForgets(Tail(blk), TRUE)
            ELSE <<nl>> \o TrimLoopForgets(Tail(blk), FALSE)

RECURSIVE TrimLoopDropsBlank(_, _)
\* TrimLoop that removes every blank line
TrimLoopDropsBlank(blk, lastEmpty) ==
    IF blk = <<>> THEN <<>>
    ELSE LET nl == TrimRight(Head(blk))
         IN IF TrimSpaceIsEmpty(nl)
            THEN TrimLoopDropsBlank(Tail(blk), TRUE)
            ELSE <<nl>> \o TrimLoopDropsBlank(Tail(blk), FALSE)

RECURSIVE TrimLoop(_, _)
\* the loop of Trim: the nb built from blk on
TrimLoop(blk, lastEmpty) ==
    IF blk = <<>> THEN <<>>
    ELSE LET nl == TrimRight(Head(blk))
         IN IF TrimSpaceIsEmpty(nl)
            THEN IF lastEmpty THEN TrimLoop(Tail(blk), TRUE)
                 ELSE << <<>> >> \o TrimLoop(Tail(blk), TRUE)
            ELSE <<nl>> \o TrimLoop(Tail(blk), FALSE)

\* b.Trim(): the new value of *b
Trim(blk) == TrimLoop(blk, FALSE)

\* the placeholder
Placeholder == <<"#", "#", "#", "#">>

At(line, k) == IF k >= 1 /\ k <= Len(line) THEN line[k] ELSE ""

IsDigit(line, k) == At(line, k) \in Digits

\* \W at position k
IsNonWord(line, k) == k >= 1 /\ k <= Len(line) /\ line[k] \notin WordChars

RECURSIVE DigitRun(_, _)
\* \d+ at pos: the length of the run of digits
DigitRun(line, pos) == IF IsDigit(line, pos) THEN 1 + DigitRun(line, pos + 1) ELSE 0

\* \d+[dh]\d\d[hm]\d\d[ms] at q: its length, or -1
DurLong(line, q) ==
    LET n == DigitRun(line, q)
    IN IF /\ n >= 1
          /\ At(line, q + n) \in {"d", "h"}
          /\ IsDigit(line, q + n + 1) /\ IsDigit(line, q + n + 2)
          /\ At(line, q + n + 3) \in {"h", "m"}
          /\ IsDigit(line, q + n + 4) /\ IsDigit(line, q + n + 5)
          /\ At(line, q + n + 6) \in {"m", "s"}
       THEN n + 7 ELSE -1

\* \d+[wd]\d+[dh] at q: its length, or -1
DurShort(line, q) ==
    LET n == DigitRun(line, q)
        m == DigitRun(line, q + n + 1)
    IN IF /\ n >= 1
          /\ At(line, q + n) \in {"w", "d"}
          /\ m >= 1
          /\ At(line, q + n + 1 + m) \in {"d", "h"}
       THEN n + m + 2 ELSE -1

\* \d\d:\d\d:\d\d at q: its length, or -1
DurClock(line, q) ==
    IF /\ IsDigit(line, q) /\ IsDigit(line, q + 1) /\ At(line, q + 2) = ":"
       /\ IsDigit(line, q + 3) /\ IsDigit(line, q + 4) /\ At(line, q + 5) = ":"
       /\ IsDigit(line, q + 6) /\ IsDigit(line, q + 7)
    THEN 8 ELSE -1

\* the group of the pattern at q: the first alternative that matches
DurToken(line, q) ==
    IF DurLong(line, q) > 0 THEN DurLong(line, q)
    ELSE IF DurShort(line, q) > 0 THEN DurShort(line, q)
    ELSE DurClock(line, q)

\* the length of the match of `\W(...)\W?` that begins at pos, or -1
DurMatch(line, pos) ==
    IF IsNonWord(line, pos) /\ DurToken(line, pos + 1) > 0
    THEN LET n == 1 + DurToken(line, pos + 1)
         IN IF IsNonWord(line, pos + n) THEN n + 1 ELSE n
    ELSE -1

RECURSIVE ReplaceDur(_, _)
\* re.ReplaceAllString(l, "####") from pos on: the matches from left to
\* right, not overlapping
ReplaceDur(line, pos) ==
    IF pos > Len(line) THEN <<>>
    ELSE IF DurMatch(line, pos) > 0
         THEN Placeholder \o ReplaceDur(line, pos + DurMatch(line, pos))
         ELSE <<line[pos]>> \o ReplaceDur(line, pos + 1)

\* b.RmPeriod(): the new value of *b
RmPeriod(blk) == [k \in 1..Len(blk) |-> ReplaceDur(blk[k], 1)]

RECURSIVE DiffLoop(_, _, _)
\* the loop of DiffFormat: the string built from blk on.  params.rmTSLine is
\* the compiled p["rmTSLine"] (NilRe for ""), params.subDurStr tells whether
\* p["subDurStr"] is the pattern of RmPeriod ("" otherwise)
DiffLoop(blk, params, lastEmpty) ==
    IF blk = <<>> THEN <<>>
    ELSE LET nl == TrimRight(Head(blk))
         IN IF TrimSpaceIsEmpty(nl)
            THEN IF lastEmpty THEN DiffLoop(Tail(blk), params, TRUE)
                 ELSE <<"\n">> \o DiffLoop(Tail(blk), params, TRUE)
            ELSE IF params.rmTSLine # NilRe /\ MatchString(params.rmTSLine, nl)
            THEN DiffLoop(Tail(blk), params, FALSE)
            ELSE (IF params.subDurStr THEN ReplaceDur(nl, 1) ELSE nl)
                     \o <<"\n">> \o DiffLoop(Tail(blk), params, FALSE)

\* b.DiffFormat(p)
DiffFormat(blk, params) == DiffLoop(blk, params, FALSE)

\* the lines the inputs of Trim and DiffFormat are drawn from:
\* "", " ", "\f", "a", "a \t", "a\f"
PostLineSet ==
    {<<>>, <<" ">>, <<"\f">>, <<"a">>, <<"a", " ", "\t">>, <<"a", "\f">>}

PostInputs == UNION {[1..n -> PostLineSet] : n \in 0..MaxPostLines}

\* "uptime 3d04h22m"
LineUptime == <<"u", "p", "t", "i", "m", "e", " ", "3", "d", "0", "4", "h", "2", "2", "m">>

\* "3d04h22m up"
LineAtStart == <<"3", "d", "0", "4", "h", "2", "2", "m", " ", "u", "p">>

\* "up 3w2d ok"
LineWeeks == <<"u", "p", " ", "3", "w", "2", "d", " ", "o", "k">>

\* "at 10:30:45."
LineClock == <<"a", "t", " ", "1", "0", ":", "3", "0", ":", "4", "5", ".">>

\* "a 1d2h 3d4h"
LineTwoTokens == <<"a", " ", "1", "d", "2", "h", " ", "3", "d", "4", "h">>

\* "x 12 y"
LineNoToken == <<"x", " ", "1", "2", " ", "y">>

\* the lines the inputs of RmPeriod are drawn from
PeriodLineSet == {LineUptime, LineAtStart, LineWeeks, LineClock, LineTwoTokens, LineNoToken}

PeriodInputs == UNION {[1..n -> PeriodLineSet] : n \in 1..MaxPeriodLines}

\* the maps handed to DiffFormat
DiffParams == [rmTSLine : {NilRe, Re(<<Lit("a", 0)>>, 0)}, subDurStr : BOOLEAN]

\* b.Trim()
CallTrim ==
    /\ pc \in {"idle", "done"}
    /\ op \in {"none", "Trim", "RmPeriod"}
    /\ Len(hist) < MaxCalls
    /\ op' = "Trim"
    /\ pc' = "done"
    /\ b' = Trim(b)
    /\ hist' = Append(hist, "Trim")
    /\ UNCHANGED <<s, e0, pat, found, res, dp, b0, parseVars, memVars, extVars>>

\* b.RmPeriod()
CallRmPeriod ==
    /\ pc \in {"idle", "done"}
    /\ op \in {"none", "Trim", "RmPeriod"}
    /\ Len(hist) < MaxCalls
    /\ op' = "RmPeriod"
    /\ pc' = "done"
    /\ b' = RmPeriod(b)
    /\ hist' = Append(hist, "RmPeriod")
    /\ UNCHANGED <<s, e0, pat, found, res, dp, b0, parseVars, memVars, extVars>>

\* b.DiffFormat(p), on the block as the earlier calls left it
CallDiffFormat ==
    /\ pc \in {"idle", "done"}
    /\ op \in {"none", "Trim", "RmPeriod"}
    /\ op' = "DiffFormat"
    /\ pc' = "done"
    /\ \E params \in DiffParams :
           /\ dp' = params
           /\ res' = DiffFormat(b, params)
    /\ UNCHANGED <<b, s, e0, pat, found, b0, hist, parseVars, memVars, extVars>>

----------------------------------------------------------------------------
(* Backing arrays: what a caller reaches through a block it was handed *)

\* Block{}, []string{} and the nil Block: no backing array
EmptySlice == [arr |-> 0, len |-> 0, cap |-> 0]

\* the lines a slice shows: the first len elements of its backing array
View(h, hdr) == IF hdr.len = 0 THEN <<>> ELSE SubSeq(h[hdr.arr], 1, hdr.len)

\* append(sl, line): written in place while capacity is left, else copied
\* into a new backing array of twice the capacity (of capacity 1 from 0)
GoAppend(h, hdr, line) ==
    IF hdr.len < hdr.cap
    THEN [heap |-> [h EXCEPT ![hdr.arr][hdr.len + 1] = line],
          hdr |-> [hdr EXCEPT !.len = hdr.len + 1]]
    ELSE LET newcap == IF hdr.cap = 0 THEN 1 ELSE 2 * hdr.cap
             arr == [k \in 1..newcap |->
                        IF k <= hdr.len THEN h[hdr.arr][k]
                        ELSE IF k = hdr.len + 1 THEN line ELSE <<>>]
         IN [heap |-> Append(h, arr),
             hdr |-> [arr |-> Len(h) + 1, len |-> hdr.len + 1, cap |-> newcap]]

RECURSIVE AppendAll(_, _, _)
\* `for _, l := range lines { sl = append(sl, l) }`
AppendAll(h, hdr, lines) ==
    IF lines = <<>> THEN [heap |-> h, hdr |-> hdr]
    ELSE LET st == GoAppend(h, hdr, Head(lines))
         IN AppendAll(st.heap, st.hdr, Tail(lines))

\* Copy returning the receiver's own slice
CopyAsView(h, hdr) == [heap |-> h, hdr |-> hdr]

\* b.Copy(): res := Block{}, then every line appended to res
CopyOnHeap(h, hdr) == AppendAll(h, EmptySlice, View(h, hdr))

RECURSIVE NewBlocks(_, _, _)
\* every block of blks grown by append from an empty Block of its own
NewBlocks(h, blks, out) ==
    IF blks = <<>> THEN [heap |-> h, hdrs |-> out]
    ELSE LET st == AppendAll(h, EmptySlice, Head(blks))
         IN NewBlocks(st.heap, Tail(blks), Append(out, st.hdr))

RECURSIVE KeepOnHeap(_, _, _, _)
\* only save the segment contains the start line: seg.Copy() of each
KeepOnHeap(h, hdrs, sp, out) ==
    IF hdrs = <<>> THEN [heap |-> h, hdrs |-> out]
    ELSE IF MatchInBlock(View(h, Head(hdrs)), sp).m
         THEN LET c == CopyOnHeap(h, Head(hdrs))
              IN KeepOnHeap(c.heap, Tail(hdrs), sp, Append(out, c.hdr))
         ELSE KeepOnHeap(h, Tail(hdrs), sp, out)

\* the lines of the receivers: "a", "b", "a \t", "b 3w2d"
MemLineSet ==
    {<<"a">>, <<"b">>, <<"a", " ", "\t">>, <<"b", " ", "3", "w", "2", "d">>}

MemInputs == UNION {[1..n -> MemLineSet] : n \in 0..MaxMemLines}

\* the line a caller writes into a block
NewLine == <<"x">>

\* the operations that return blocks
BlockOps == {"FetchBlock", "Cut", "Segment", "RemoveFromBlock", "Copy"}

\* b.Copy()
MemCopy ==
    /\ pc = "idle"
    /\ op' = "Copy"
    /\ pc' = "done"
    /\ LET c == CopyOnHeap(heap, src)
       IN /\ heap' = c.heap
          /\ rets' = <<c.hdr>>
    /\ blocks' = <<Copy(b)>>
    /\ UNCHANGED <<b, s, e0, i, inBlock, block, e, titleCatch, opens, src, extVars>>
    /\ UNCHANGED matchVars

\* b.RemoveFromBlock(pat): nb grown by append from the nil Block
MemRemoveFromBlock ==
    /\ pc = "idle"
    /\ op' = "RemoveFromBlock"
    /\ pc' = "done"
    /\ LET nb == AppendAll(heap, EmptySlice, RemoveLoop(View(heap, src), pat))
       IN /\ heap' = nb.heap
          /\ rets' = <<nb.hdr>>
    /\ found' = RemoveFromBlock(b, pat).m
    /\ blocks' = <<RemoveFromBlock(b, pat).r>>
    /\ UNCHANGED <<b, s, e0, i, inBlock, block, e, titleCatch, opens, src, extVars>>
    /\ UNCHANGED <<pat, res, dp, b0, hist>>

\* b.Cut(s): the segments of pblocks, then the copies of those with a start line
MemCut ==
    /\ pc = "idle"
    /\ op' = "Cut"
    /\ pc' = "done"
    /\ LET pblocks == CutLoop(View(heap, src), s, 1, <<>>, <<>>)
           segs == NewBlocks(heap, pblocks, <<>>)
           kept == KeepOnHeap(segs.heap, segs.hdrs, s, <<>>)
       IN /\ heap' = kept.heap
          /\ rets' = kept.hdrs
          /\ blocks' = KeepBlocks(pblocks, s)
          /\ titleCatch' = KeepTitles(pblocks, s)
    /\ UNCHANGED <<b, s, e0, i, inBlock, block, e, opens, src, extVars>>
    /\ UNCHANGED matchVars

\* b.Segment(s, e0), e0 not nil
MemSegment ==
    /\ pc = "idle"
    /\ e0 # NilRe
    /\ op' = "Segment"
    /\ pc' = "done"
    /\ LET pblocks == SegmentLoop(View(heap, src), e0, 1, <<>>, <<>>)
           segs == NewBlocks(heap, pblocks, <<>>)
           kept == KeepOnHeap(segs.heap, segs.hdrs, s, <<>>)
       IN /\ heap' = kept.heap
          /\ rets' = kept.hdrs
          /\ blocks' = KeepBlocks(pblocks, s)
          /\ titleCatch' = KeepTitles(pblocks, s)
    /\ UNCHANGED <<b, s, e0, i, inBlock, block, e, opens, src, extVars>>
    /\ UNCHANGED matchVars

\* the return of FetchBlock: every block is a bv := Block{} of its own, grown
\* by append while the loop ran; nothing else runs during the call, so the
\* arrays are laid out when it returns
MemFetchReturn ==
    /\ pc = "loop"
    /\ op = "FetchBlock"
    /\ i > Len(b)
    /\ titleCatch' = CollapseTitles(titleCatch)
    /\ pc' = "done"
    /\ LET bvs == NewBlocks(heap, blocks, <<>>)
       IN /\ heap' = bvs.heap
          /\ rets' = bvs.hdrs
    /\ UNCHANGED <<b, s, e0, op, i, inBlock, block, e, blocks, opens, src, extVars>>
    /\ UNCHANGED matchVars

\* a caller may change the block rets[k] it was handed
MayMutate(k) ==
    /\ pc = "done"
    /\ op \in BlockOps
    /\ k \in 1..Len(rets)
    /\ Len(hist) < MaxCalls

\* (*r)[j] = "x" on a returned block r
MutOverwrite ==
    \E k \in 1..Len(rets) : \E j \in 1..rets[k].len :
        /\ MayMutate(k)
        /\ heap' = [heap EXCEPT ![rets[k].arr][j] = NewLine]
        /\ hist' = Append(hist, [m |-> "Overwrite", k |-> k])
        /\ UNCHANGED <<b, s, e0, op, pc, parseVars, pat, found, res, dp, b0, src, rets, extVars>>

\* *r = append(*r, "x") on a returned block r
MutAppend ==
    \E k \in 1..Len(rets) :
        /\ MayMutate(k)
        /\ LET st == GoAppend(heap, rets[k], NewLine)
           IN /\ heap' = st.heap
              /\ rets' = [rets EXCEPT ![k] = st.hdr]
        /\ hist' = Append(hist, [m |-> "Append", k |-> k])
        /\ UNCHANGED <<b, s, e0, op, pc, parseVars, pat, found, res, dp, b0, src, extVars>>

\* r.Trim() on a returned block r: nb := []string{}, grown by append, *r = nb
MutTrim ==
    \E k \in 1..Len(rets) :
        /\ MayMutate(k)
        /\ LET nb == AppendAll(heap, EmptySlice, Trim(View(heap, rets[k])))
           IN /\ heap' = nb.heap
              /\ rets' = [rets EXCEPT ![k] = nb.hdr]
        /\ hist' = Append(hist, [m |-> "Trim", k |-> k])
        /\ UNCHANGED <<b, s, e0, op, pc, parseVars, pat, found, res, dp, b0, src, extVars>>

\* r.RmPeriod() on a returned block r
MutRmPeriod ==
    \E k \in 1..Len(rets) :
        /\ MayMutate(k)
        /\ LET nb == AppendAll(heap, EmptySlice, RmPeriod(View(heap, rets[k])))
           IN /\ heap' = nb.heap
              /\ rets' = [rets EXCEPT ![k] = nb.hdr]
        /\ hist' = Append(hist, [m |-> "RmPeriod", k |-> k])
        /\ UNCHANGED <<b, s, e0, op, pc, parseVars, pat, found, res, dp, b0, src, extVars>>

----------------------------------------------------------------------------
(* The derived end pattern on its own: a captured text, and a later line *)

\* the characters of the captured texts and of the lines: a backslash, a
\* character of the escape table, a letter that names a class after a
\* backslash, a digit (no escape), a blank
DeriveChars == {"\\", ".", "d", "1", " "}

CapturedTexts == UNION {[1..n -> DeriveChars] : n \in 0..MaxCaptureLen}

DeriveLines == UNION {[1..n -> DeriveChars] : n \in 0..MaxDeriveLine}

\* `if e == nil` on a start line whose first group captured res, then
\* e.FindStringSubmatch on the later line b[1]
CallDeriveEnd ==
    /\ pc = "idle"
    /\ op' = "DeriveEnd"
    /\ LET derived == DeriveEnd(res)
       IN IF CompileFails(derived)
          THEN /\ pc' = "panic"
               /\ UNCHANGED <<e, found>>
          ELSE /\ pc' = "done"
               /\ e' = derived
               /\ found' = MatchString(derived, b[1])
    /\ UNCHANGED <<b, s, e0, i, inBlock, block, blocks, titleCatch, opens>>
    /\ UNCHANGED <<pat, res, dp, b0, hist, memVars, extVars>>

----------------------------------------------------------------------------
(* package util: SortMapByField *)

\* the decimal digits, by value
DigitChar(d) == <<"0", "1", "2", "3", "4", "5", "6", "7", "8", "9">>[d + 1]

DigitVal(c) == CHOOSE d \in 0..9 : DigitChar(d) = c

RECURSIVE Itoa(_)
\* strconv.Itoa(n), strconv.FormatInt(n, 10), for n >= 0
Itoa(n) == IF n < 10 THEN <<DigitChar(n)>> ELSE Itoa(n \div 10) \o <<DigitChar(n % 10)>>

RECURSIVE DigitsOf(_)
\* extractNumberFromString: the digits of str, joined
DigitsOf(str) ==
    IF str = <<>> THEN <<>>
    ELSE (IF Head(str) \in Digits THEN <<Head(str)>> ELSE <<>>) \o DigitsOf(Tail(str))

RECURSIVE Atoi(_, _)
\* strconv.Atoi of a string of digits, acc the value read so far
Atoi(str, acc) == IF str = <<>> THEN acc ELSE Atoi(Tail(str), 10 * acc + DigitVal(Head(str)))

\* extractNumberFromString(str, 0): 0 when str has no digit (Atoi fails)
ExtractNumber(str) == Atoi(DigitsOf(str), 0)

\* NatureOrder(): the Less of the sorter
NatureLess(str1, str2) == ExtractNumber(str1) < ExtractNumber(str2)

\* the values em[f] can have: a string, an int, an int64, a value of
\* another type, or no entry for f
StrVal(str) == [t |-> "string", str |-> str, n |-> 0]
IntVal(n) == [t |-> "int", str |-> <<>>, n |-> n]
Int64Val(n) == [t |-> "int64", str |-> <<>>, n |-> n]
OtherVal == [t |-> "float64", str |-> <<>>, n |-> 0]
NoEntry == [t |-> "none", str |-> <<>>, n |-> 0]

\* the type switch: the case a value takes
HasGv(v) == v.t \in {"string", "int", "int64"}

\* the type switch: gv (mv in the second loop; "" in the default case)
Gv(v) == IF v.t = "string" THEN v.str ELSE IF v.t \in {"int", "int64"} THEN Itoa(v.n) ELSE <<>>

\* the first loop: the maps with a usable value, in order
WithKey(m) == SelectSeq(m, HasGv)

\* the first loop: the other maps, in order
WithoutKey(m) == SelectSeq(m, LAMBDA v : ~HasGv(v))

\* the first loop: the keys of tseqm
Tseqm(m) == {Gv(m[k]) : k \in {x \in 1..Len(m) : HasGv(m[x])}}

\* the orders NatureOrder().Sort can leave the keys of tseqm in
NatureSorted(S) ==
    {sq \in [1..Cardinality(S) -> S] :
        /\ \A x \in S : \E k \in 1..Cardinality(S) : sq[k] = x
        /\ \A x, y \in 1..Cardinality(S) : x < y => ~NatureLess(sq[y], sq[x])}

RECURSIVE SortPassFrom(_, _, _, _)
\* `for i := 0; i < len(withKey); i++` for the value k, from i = idx on
SortPassFrom(withKey, sorted, k, idx) ==
    IF ~(idx < Len(withKey)) THEN [withKey |-> withKey, sorted |-> sorted]
    ELSE LET q == Head(withKey)
         IN IF Gv(q) = k
            THEN SortPassFrom(Tail(withKey), Append(sorted, q), k, idx + 1)
            ELSE SortPassFrom(Append(Tail(withKey), q), sorted, k, idx + 1)

RECURSIVE SortLoop(_, _, _)
\* `for _, k := range tseq`, then the two appends after it
SortLoop(withKey, sorted, tseq) ==
    IF tseq = <<>> THEN sorted \o withKey
    ELSE LET st == SortPassFrom(withKey, sorted, Head(tseq), 0)
         IN SortLoop(st.withKey, st.sorted, Tail(tseq))

\* SortMapByField(m, f, tseq), tseq not nil
SortMapByField(m, tseq) == SortLoop(WithKey(m), <<>>, tseq) \o WithoutKey(m)

\* the nil tseq
NilSeq == [nil |-> TRUE, v |-> <<>>]

SomeSeq(v) == [nil |-> FALSE, v |-> v]

\* the values of the key f in the maps of the inputs: "1", "2", "10", 2
FieldVals ==
    {StrVal(<<"1">>), StrVal(<<"2">>), StrVal(<<"1", "0">>), IntVal(2), Int64Val(1),
     OtherVal, NoEntry}

MapLists == UNION {[1..n -> FieldVals] : n \in 0..MaxMaps}

\* the order sequences handed in
OrderSeqs ==
    {NilSeq, SomeSeq(<<<<"2">>, <<"1">>>>), SomeSeq(<<<<"1", "0">>, <<"2">>, <<"1">>>>)}

\* SortMapByField(arg.m, f, arg.tseq)
CallSortMapByField ==
    /\ pc = "idle"
    /\ op' = "SortMapByField"
    /\ pc' = "done"
    /\ \E tseq \in (IF arg.tseq.nil THEN NatureSorted(Tseqm(arg.m)) ELSE {arg.tseq.v}) :
           ret' = SortMapByField(arg.m, tseq)
    /\ UNCHANGED <<b, s, e0, parseVars, matchVars, memVars>>
    /\ UNCHANGED <<arg, fd, ei, ks, start, rlist, apiVars>>

----------------------------------------------------------------------------
(* package util: StrInterpolate *)

RECURSIVE SkipSpaces(_, _)
\* \s* from position k: the position after the white space
SkipSpaces(str, k) == IF At(str, k) \in SpaceChars THEN SkipSpaces(str, k + 1) ELSE k

\* (\d+) from position k: the position after the digits (k when there is none)
DigitEnd(str, k) == k + DigitRun(str, k)

\* the characters of [\w\s,]
ListChars == WordChars \cup SpaceChars \cup {","}

RECURSIVE ListEnd(_, _)
\* [\w\s,]+ from position k: the position after the run
ListEnd(str, k) == IF At(str, k) \in ListChars THEN ListEnd(str, k + 1) ELSE k

\* no match at a position
NoToken == [ok |-> FALSE, from |-> 0, stop |-> 0, g1 |-> <<>>, g2 |-> <<>>, g3 |-> <<>>]

\* `\^\s*(\d+)\s*-\s*(\d+)\s*(?:\+(\d+))?\$` at position k
RangeAt(str, k) ==
    LET a1 == SkipSpaces(str, k + 1)
        a2 == DigitEnd(str, a1)
        b1 == SkipSpaces(str, a2)
        c1 == SkipSpaces(str, b1 + 1)
        c2 == DigitEnd(str, c1)
        d1 == SkipSpaces(str, c2)
        hasStep == At(str, d1) = "+" /\ DigitEnd(str, d1 + 1) > d1 + 1
        e1 == IF hasStep THEN DigitEnd(str, d1 + 1) ELSE d1
    IN IF /\ At(str, k) = "^"
          /\ a2 > a1
          /\ At(str, b1) = "-"
          /\ c2 > c1
          /\ At(str, e1) = "$"
       THEN [ok |-> TRUE, from |-> k, stop |-> e1,
             g1 |-> SubSeq(str, a1, a2 - 1),
             g2 |-> SubSeq(str, c1, c2 - 1),
             g3 |-> IF hasStep THEN SubSeq(str, d1 + 1, e1 - 1) ELSE <<>>]
       ELSE NoToken

\* `\^([\w\s,]+)\$` at position k; g1 is the group
ListAt(str, k) ==
    LET r == ListEnd(str, k + 1)
    IN IF At(str, k) = "^" /\ r > k + 1 /\ At(str, r) = "$"
       THEN [ok |-> TRUE, from |-> k, stop |-> r,
             g1 |-> SubSeq(str, k + 1, r - 1), g2 |-> <<>>, g3 |-> <<>>]
       ELSE NoToken

\* the pattern re at position k: the range alternative first; the list
\* alternative has no group, so elem[1..3] are ""
TokenAt(str, k) ==
    IF RangeAt(str, k).ok THEN RangeAt(str, k)
    ELSE IF ListAt(str, k).ok THEN [ListAt(str, k) EXCEPT !.g1 = <<>>]
    ELSE NoToken

RECURSIVE FindAll(_, _)
\* re.FindAllStringSubmatch(s, -1) from position k on
FindAll(str, k) ==
    IF k > Len(str) THEN <<>>
    ELSE LET tk == TokenAt(str, k)
         IN IF tk.ok THEN <<tk>> \o FindAll(str, tk.stop + 1) ELSE FindAll(str, k + 1)

\* elem[0]
ElemText(str, tk) == SubSeq(str, tk.from, tk.stop)

RECURSIVE SplitComma(_, _)
\* strings.Split(str, ","), cur the item read so far
SplitComma(str, cur) ==
    IF str = <<>> THEN <<cur>>
    ELSE IF Head(str) = "," THEN <<cur>> \o SplitComma(Tail(str), <<>>)
    ELSE SplitComma(Tail(str), Append(cur, Head(str)))

RECURSIVE TrimLeftSpace(_)
TrimLeftSpace(str) ==
    IF str # <<>> /\ Head(str) \in SpaceChars THEN TrimLeftSpace(Tail(str)) ELSE str

RECURSIVE TrimRightSpace(_)
TrimRightSpace(str) ==
    IF str # <<>> /\ str[Len(str)] \in SpaceChars
    THEN TrimRightSpace(SubSeq(str, 1, Len(str) - 1)) ELSE str

\* strings.TrimSpace(str)
TrimSpace(str) == TrimRightSpace(TrimLeftSpace(str))

\* the ks of a list token: the items of qt[1], trimmed
ListItems(inner) ==
    LET parts == SplitComma(inner, <<>>)
    IN [k \in 1..Len(parts) |-> TrimSpace(parts[k])]

\* strconv.ParseInt(str, 10, 64) of a string of digits (the inputs stay far
\* below 2^63, so err is nil)
ParseInt(str) == Atoi(str, 0)

\* step: 1, or elem[3] when it is not ""
StepOf(tk) == IF tk.g3 # <<>> THEN ParseInt(tk.g3) ELSE 1

RECURSIVE IndexOf(_, _, _)
\* strings.Index from position k on: the first place old occurs in str, 0 if none
IndexOf(str, old, k) ==
    IF k + Len(old) - 1 > Len(str) THEN 0
    ELSE IF SubSeq(str, k, k + Len(old) - 1) = old THEN k
    ELSE IndexOf(str, old, k + 1)

\* strings.Replace(str, old, new, 1), old not empty
ReplaceFirst(str, old, new) ==
    LET k == IndexOf(str, old, 1)
    IN IF k = 0 THEN str
       ELSE SubSeq(str, 1, k - 1) \o new \o SubSeq(str, k + Len(old), Len(str))

RECURSIVE Flat(_)
Flat(ss) == IF ss = <<>> THEN <<>> ELSE Head(ss) \o Flat(Tail(ss))

\* tr: for every ri of r, for every inpt of ks, ri with elem[0] replaced once
Combine(r, items, txt) ==
    Flat([x \in 1..Len(r) |-> [y \in 1..Len(items) |-> ReplaceFirst(r[x], txt, items[y])]])

\* the pieces the inputs are put together from: "x ", "^0-2$", "^1-5+2$",
\* "^ a, b $", "^3-1$", "^1-2+0$", "^7$", "^-$"
Pieces ==
    {<<"x", " ">>,
     <<"^", "0", "-", "2", "$">>,
     <<"^", "1", "-", "5", "+", "2", "$">>,
     <<"^", " ", "a", ",", " ", "b", " ", "$">>,
     <<"^", "3", "-", "1", "$">>,
     <<"^", "1", "-", "2", "+", "0", "$">>,
     <<"^", "7", "$">>,
     <<"^", "-", "$">>}

InterpInputs == {Flat(ps) : ps \in UNION {[1..n -> Pieces] : n \in 1..MaxPieces}}

\* StrInterpolate(arg) up to the loop over fd
CallStrInterpolate ==
    /\ pc = "idle"
    /\ op' = "StrInterpolate"
    /\ fd' = FindAll(arg, 1)
    /\ rlist' = <<arg>>
    /\ IF fd' = <<>>
       THEN /\ pc' = "done"
            /\ ret' = NilSeq
            /\ ei' = ei
       ELSE /\ pc' = "elem"
            /\ ei' = 1
            /\ ret' = ret
    /\ UNCHANGED <<b, s, e0, parseVars, matchVars, memVars>>
    /\ UNCHANGED <<arg, ks, start, apiVars>>

\* `for _, elem := range fd`: ks of a list token, or the locals of a range token
ElemBegin ==
    /\ pc = "elem"
    /\ op = "StrInterpolate"
    /\ LET txt == ElemText(arg, fd[ei])
           qt == ListAt(txt, 1)
       IN IF qt.ok
          THEN /\ ks' = ListItems(qt.g1)
               /\ pc' = "combine"
               /\ start' = start
          ELSE /\ start' = ParseInt(fd[ei].g1)
               /\ ks' = <<fd[ei].g1>>
               /\ pc' = "range"
    /\ UNCHANGED <<b, s, e0, op, parseVars, matchVars, memVars>>
    /\ UNCHANGED <<arg, ret, fd, ei, rlist, apiVars>>

\* one iteration of `for { start += step; if start > end { break }; ... }`
RangeStep ==
    /\ pc = "range"
    /\ op = "StrInterpolate"
    /\ Len(ks) < MaxKs
    /\ start' = start + StepOf(fd[ei])
    /\ IF start' > ParseInt(fd[ei].g2)
       THEN /\ pc' = "combine"
            /\ ks' = ks
       ELSE /\ pc' = "range"
            /\ ks' = Append(ks, Itoa(start'))
    /\ UNCHANGED <<b, s, e0, op, parseVars, matchVars, memVars>>
    /\ UNCHANGED <<arg, ret, fd, ei, rlist, apiVars>>

\* the end of the loop body: r = tr; after the last elem, return &r
CombineStep ==
    /\ pc = "combine"
    /\ op = "StrInterpolate"
    /\ rlist' = Combine(rlist, ks, ElemText(arg, fd[ei]))
    /\ IF ei = Len(fd)
       THEN /\ pc' = "done"
            /\ ret' = SomeSeq(rlist')
            /\ ei' = ei
       ELSE /\ pc' = "elem"
            /\ ei' = ei + 1
            /\ ret' = ret
    /\ UNCHANGED <<b, s, e0, op, parseVars, matchVars, memVars>>
    /\ UNCHANGED <<arg, fd, ks, start, apiVars>>

----------------------------------------------------------------------------
(* package util: StringToDuration.  A time.Duration counts nanoseconds; the *)
(* durations of the model are whole milliseconds and are counted in them.   *)

Millisecond == 1

Second == 1000 * Millisecond

Minute == 60 * Second

Hour == 60 * Minute

\* the units of time.ParseDuration that the inputs can spell
UnitNames == {<<"m", "s">>, <<"s">>, <<"m">>, <<"h">>}

UnitValue(u) ==
    CASE u = <<"m", "s">> -> Millisecond
      [] u = <<"s">> -> Second
      [] u = <<"m">> -> Minute
      [] u = <<"h">> -> Hour

RECURSIVE UnitEnd(_, _)
\* the unit: the characters up to the next digit or "."
UnitEnd(str, k) ==
    IF k <= Len(str) /\ str[k] \notin Digits /\ str[k] # "." THEN UnitEnd(str, k + 1) ELSE k

\* a failed parse
DurErr == [ok |-> FALSE, d |-> 0]

RECURSIVE ParseDurFrom(_, _, _)
\* the loop of time.ParseDuration from position k on: a number without
\* fraction, then a unit, again and again; acc the sum so far
ParseDurFrom(str, k, acc) ==
    IF k > Len(str) THEN [ok |-> TRUE, d |-> acc]
    ELSE LET n == DigitEnd(str, k)
             u == UnitEnd(str, n)
         IN IF n = k \/ SubSeq(str, n, u - 1) \notin UnitNames THEN DurErr
            ELSE ParseDurFrom(str, u, acc + ParseInt(SubSeq(str, k, n - 1)) * UnitValue(SubSeq(str, n, u - 1)))

\* time.ParseDuration(str), str without sign and fraction: "0" is 0, "" an error
ParseDuration(str) ==
    IF str = <<"0">> THEN [ok |-> TRUE, d |-> 0]
    ELSE IF str = <<>> THEN DurErr
    ELSE ParseDurFrom(str, 1, 0)

RECURSIVE SplitOnD(_, _)
\* strings.Split(str, "d"), cur the part read so far
SplitOnD(str, cur) ==
    IF str = <<>> THEN <<cur>>
    ELSE IF Head(str) = "d" THEN <<cur>> \o SplitOnD(Tail(str), <<>>)
    ELSE SplitOnD(Tail(str), Append(cur, Head(str)))

\* strconv.ParseInt(str, 10, 64) succeeds, str without sign
IsInt(str) == str # <<>> /\ \A k \in 1..Len(str) : str[k] \in Digits

\* StringToDuration(str); time.Duration(med * 1000000000) is med seconds
StringToDuration(str) ==
    LET y == SplitOnD(str, <<>>)
    IN IF Len(y) > 1
       THEN IF ParseDuration(y[2]).ok /\ IsInt(y[1])
            THEN ParseInt(y[1]) * Second + ParseDuration(y[2]).d
            ELSE 0
       ELSE IF ParseDuration(y[1]).ok THEN ParseDuration(y[1]).d ELSE 0

\* what the inputs begin with: a number of days, nothing, or no number
DayParts == {Itoa(n) : n \in 0..MaxDays} \cup {<<>>, <<"x">>}

\* what follows: "", "2h", "30m", "1h30m", "90s", "250ms", "0", "5", "h", "1d"
RestParts ==
    {<<>>, <<"2", "h">>, <<"3", "0", "m">>, <<"1", "h", "3", "0", "m">>,
     <<"9", "0", "s">>, <<"2", "5", "0", "m", "s">>,
     <<"0">>, <<"5">>, <<"h">>, <<"1", "d">>}

DurationInputs ==
    {x \o y : x \in DayParts, y \in RestParts}
        \cup {x \o <<"d">> \o y : x \in DayParts, y \in RestParts}

\* StringToDuration(arg)
CallStringToDuration ==
    /\ pc = "idle"
    /\ op' = "StringToDuration"
    /\ pc' = "done"
    /\ ret' = StringToDuration(arg)
    /\ UNCHANGED <<b, s, e0, parseVars, matchVars, memVars>>
    /\ UNCHANGED <<arg, fd, ei, ks, start, rlist, apiVars>>

----------------------------------------------------------------------------
(* package util: StringToEpoch.  A time string is the layout it is written *)
(* in, the wall clock it reads (seconds since 1970-01-01 00:00:00), its    *)
(* zone abbreviation, and whether the machine's Local location defines     *)
(* that abbreviation.                                                      *)

\* largest wall clock reading of the model, in seconds
MaxWall == 3

\* the layouts StringToEpoch tries, in order
Formats == <<"2006-01-02 15:04:05 MST", "Mon Jan _2 15:04:05 MST 2006">>

\* the offsets StringToEpoch knows; a missing key reads as 0
TzInfo(zone) ==
    CASE zone \in {"UTC", "GMT"} -> 0
      [] zone \in {"AST", "EDT"} -> -14400
      [] zone \in {"EST", "CDT"} -> -18000
      [] zone \in {"CST", "MDT"} -> -21600
      [] zone \in {"MST", "PDT"} -> -25200
      [] zone \in {"PST", "AKDT"} -> -28800
      [] zone \in {"AKST", "HADT"} -> -32400
      [] zone \in {"HST", "HAST", "SDT"} -> -36000
      [] zone = "SST" -> -39600
      [] zone = "CHST" -> 36000
      [] OTHER -> 0

\* the error time.Parse returns for a string that is not in the layout
ParseError == "parsing time: cannot parse"

\* time.Parse(format, str): the time, and the error.  The abbreviation UTC
\* is UTC; an abbreviation the Local location defines gives a time in Local
\* with the offset of the abbreviation; any other gives a fabricated location
\* of that name with offset 0
ParseTime(format, str) ==
    IF str.shape # format
    THEN [unix |-> 0, loc |-> "UTC", err |-> ParseError]
    ELSE IF str.local
    THEN [unix |-> str.wall - TzInfo(str.zone), loc |-> "Local", err |-> "nil"]
    ELSE [unix |-> str.wall, loc |-> str.zone, err |-> "nil"]

\* the range loop from the k-th format on; err is the err declared before
\* the loop, which `t2, err := time.Parse(format, s)` does not assign: it
\* declares an err of its own inside the loop body
RECURSIVE EpochFrom(_, _, _)
EpochFrom(str, k, err) ==
    IF k > Len(Formats) THEN [epoch |-> 0, err |-> err]
    ELSE LET t2 == ParseTime(Formats[k], str)
         IN IF t2.err = "nil"
            THEN [epoch |-> t2.unix - TzInfo(t2.loc), err |-> "nil"]
            ELSE EpochFrom(str, k + 1, err)

\* StringToEpoch(s): the epoch and the error
StringToEpoch(str) == EpochFrom(str, 1, "nil")

\* the zone abbreviations of the model: UTC, two of TzInfo, one unknown
EpochZones == {"UTC", "EST", "CHST", "XYZ"}

\* the layouts of the inputs: the two supported ones and an unsupported one
EpochShapes == {Formats[1], Formats[2], "2006-01-02T15:04:05Z07:00"}

EpochInputs ==
    {[shape |-> sh, wall |-> w, zone |-> z, local |-> l] :
        sh \in EpochShapes, w \in 0..MaxWall,
        z \in EpochZones, l \in BOOLEAN} \
    {x \in [shape : EpochShapes, wall : 0..MaxWall,
            zone : EpochZones, local : BOOLEAN] :
        x.local /\ x.zone \in {"UTC", "XYZ"}}

\* StringToEpoch(arg)
CallStringToEpoch ==
    /\ pc = "idle"
    /\ op' = "StringToEpoch"
    /\ pc' = "done"
    /\ ret' = StringToEpoch(arg)
    /\ UNCHANGED <<b, s, e0, parseVars, matchVars, memVars>>
    /\ UNCHANGED <<arg, fd, ei, ks, start, rlist, apiVars>>

----------------------------------------------------------------------------
(* package util: the auth middleware of the API value (api.go), and its    *)
(* earlier copy (part_001) that keeps the token and the claims in fields   *)
(* of the API value.  A header value is a sequence of words: the word      *)
(* "Bearer " and encoded tokens.  A token is an opaque word; JwtDecode     *)
(* gives what the library reads out of it.                                 *)

\* most requests served in one behaviour
MaxReqs == 2

\* api.TokenSec
TokenSec == "secret"

\* the word "Bearer "
Bearer == "Bearer "

\* the encoded tokens of the model
JwtTokens == {"hs.u1", "hs.u2", "hs.u1.otherkey", "rs.u1", "hs.u1.expired",
              "garbage"}

\* what jwt.Parse reads out of an encoded token: the number of segments, the
\* signing method, the key of the signature, the claims (the uid, and
\* whether exp has passed)
JwtDecode(word) ==
    CASE word = "hs.u1" ->
           [segs |-> 3, alg |-> "HS256", key |-> TokenSec, uid |-> "u1", expired |-> FALSE]
      [] word = "hs.u2" ->
           [segs |-> 3, alg |-> "HS256", key |-> TokenSec, uid |-> "u2", expired |-> FALSE]
      [] word = "hs.u1.otherkey" ->
           [segs |-> 3, alg |-> "HS256", key |-> "guess", uid |-> "u1", expired |-> FALSE]
      [] word = "rs.u1" ->
           [segs |-> 3, alg |-> "RS256", key |-> "private", uid |-> "u1", expired |-> FALSE]
      [] word = "hs.u1.expired" ->
           [segs |-> 3, alg |-> "HS256", key |-> TokenSec, uid |-> "u1", expired |-> TRUE]
      [] OTHER ->
           [segs |-> 1, alg |-> "", key |-> "", uid |-> "", expired |-> FALSE]

\* the signing methods of type *jwt.SigningMethodHMAC
HMACAlgs == {"HS256", "HS384", "HS512"}

\* the signature check of the signing method: a wrong signature verifies
\* under every key
VerifyAny(tok, key) == TRUE

\* the signature check of the signing method
Verify(tok, key) == tok.key = key

\* the key function handed to jwt.Parse
KeyFunc(tok) ==
    IF tok.alg \notin HMACAlgs
    THEN [key |-> "", err |-> "Unexpected signing method"]
    ELSE [key |-> TokenSec, err |-> "nil"]

\* jwt.Parse(text, keyFunc): the token (Valid, Claims) and the error
JwtParse(text) ==
    IF Len(text) # 1 \/ JwtDecode(text[1]).segs # 3
    THEN [valid |-> FALSE, claims |-> "", err |-> "token contains an invalid number of segments"]
    ELSE LET tok == JwtDecode(text[1])
             kf == KeyFunc(tok)
         IN IF kf.err # "nil"
            THEN [valid |-> FALSE, claims |-> tok.uid, err |-> kf.err]
            ELSE IF tok.expired
            THEN [valid |-> FALSE, claims |-> tok.uid, err |-> "Token is expired"]
            ELSE IF ~Verify(tok, kf.key)
            THEN [valid |-> FALSE, claims |-> tok.uid, err |-> "signature is invalid"]
            ELSE [valid |-> TRUE, claims |-> tok.uid, err |-> "nil"]

\* strings.Split(h, "Bearer "), cur the piece collected so far
RECURSIVE SplitBearerFrom(_, _)
SplitBearerFrom(h, cur) ==
    IF h = <<>> THEN <<cur>>
    ELSE IF Head(h) = Bearer
    THEN <<cur>> \o SplitBearerFrom(Tail(h), <<>>)
    ELSE SplitBearerFrom(Tail(h), Append(cur, Head(h)))

SplitBearer(h) == SplitBearerFrom(h, <<>>)

\* strings.TrimPrefix(h, "Bearer ")
TrimBearer(h) == IF h # <<>> /\ Head(h) = Bearer THEN Tail(h) ELSE h

\* api.NoAuth, and the full names of the gRPC methods of the model
NoAuth == {"/svc/Login"}

Methods == {"/svc/Login", "/svc/Get"}

\* for _, a := range api.NoAuth { if a == srv.FullMethod
Listed(method) == method \in NoAuth

\* the header values of the model: none, a bare token, "Bearer " and a token
Headers ==
    {<<>>, <<"hs.u1">>} \cup {<<Bearer, word>> : word \in JwtTokens}

\* a request as it arrives: r.Header.Get("Authorization") for Auth; the
\* method, the metadata ("nometa": none, "nofield": no authorization field)
\* and ts[0] for the gRPC interceptors
NewRequest(kind, method, meta, hdr) ==
    [kind |-> kind, method |-> method, meta |-> meta, hdr |-> hdr,
     pc |-> "new", ctxToken |-> <<>>, ctxClaims |-> "",
     seenToken |-> <<>>, seenClaims |-> "", resp |-> "", called |-> FALSE]

HttpRequests == {NewRequest("http", "", "field", h) : h \in Headers}

GrpcRequests(kind) ==
    {NewRequest(kind, "/svc/Get", "field", h) : h \in Headers}
        \cup {NewRequest(kind, m, meta, <<>>) :
                 m \in Methods, meta \in {"nometa", "nofield"}}
        \cup {NewRequest(kind, "/svc/Login", "field", <<Bearer, "hs.u1">>)}

\* the requests a copy of the middleware serves: the earlier copy has no
\* stream interceptor
Requests(v) ==
    HttpRequests \cup GrpcRequests("unary")
        \cup (IF v = "context" THEN GrpcRequests("stream") ELSE {})

\* the outcome of the checks: refused, or passed with the token and claims
Refused == [ok |-> FALSE, token |-> <<>>, claims |-> ""]

Passed(token, claims) == [ok |-> TRUE, token |-> token, claims |-> claims]

\* the token of the parsed text: err != nil, then claims ok && token.Valid
ParsedCheck(text, whole) ==
    LET token == JwtParse(text)
    IN IF token.err # "nil" THEN Refused
       ELSE IF token.valid THEN Passed(whole, token.claims)
       ELSE Refused

\* Auth: the checks on the header
HttpCheck(r) ==
    LET authHeader == SplitBearer(r.hdr)
    IN IF Len(authHeader) # 2 THEN Refused
       ELSE ParsedCheck(authHeader[2], r.hdr)

\* AuthGrpcUnary, AuthGrpcStream: the checks on the metadata
GrpcCheck(r) ==
    IF r.meta = "nometa" THEN Refused
    ELSE IF r.meta = "nofield" THEN Refused
    ELSE ParsedCheck(TrimBearer(r.hdr), r.hdr)

\* http.StatusUnauthorized, codes.Unauthenticated
Unauthorized(kind) == IF kind = "http" THEN "401" ELSE "Unauthenticated"

\* the request after the checks: refused with the error response; passed, in
\* api.go the token and claims go into the context and the handler is
\* called, in the earlier copy the assignment of api.Token comes next
AfterCheck(r, c) ==
    IF ~c.ok
    THEN [r EXCEPT !.pc = "done", !.resp = Unauthorized(r.kind)]
    ELSE IF ver = "context"
    THEN [r EXCEPT !.pc = "handler", !.called = TRUE,
                   !.ctxToken = c.token, !.ctxClaims = c.claims]
    ELSE [r EXCEPT !.pc = "token"]

\* the handler Auth returns, serving request k
Auth(k) ==
    /\ rq[k].kind = "http"
    /\ rq[k].pc = "new"
    /\ rq' = [rq EXCEPT ![k] = AfterCheck(rq[k], HttpCheck(rq[k]))]
    /\ UNCHANGED <<ver, apiToken, apiClaims>>

\* the interceptor of request k, unary or stream
Intercept(k) ==
    /\ rq[k].pc = "new"
    /\ rq' = [rq EXCEPT ![k] =
                IF Listed(rq[k].method)
                THEN [rq[k] EXCEPT !.pc = "handler", !.called = TRUE]
                ELSE AfterCheck(rq[k], GrpcCheck(rq[k]))]
    /\ UNCHANGED <<ver, apiToken, apiClaims>>

AuthGrpcUnary(k) == rq[k].kind = "unary" /\ Intercept(k)

AuthGrpcStream(k) == rq[k].kind = "stream" /\ Intercept(k)

\* the checks of request k, whichever middleware serves it
Check(r) == IF r.kind = "http" THEN HttpCheck(r) ELSE GrpcCheck(r)

\* the earlier copy: api.Token = AuthToken(...)
StoreToken(k) ==
    /\ rq[k].pc = "token"
    /\ apiToken' = Check(rq[k]).token
    /\ rq' = [rq EXCEPT ![k].pc = "claims"]
    /\ UNCHANGED <<ver, apiClaims>>

\* the earlier copy: api.Claims = claims, and the call of the handler
StoreClaims(k) ==
    /\ rq[k].pc = "claims"
    /\ apiClaims' = Check(rq[k]).claims
    /\ rq' = [rq EXCEPT ![k].pc = "handler", ![k].called = TRUE]
    /\ UNCHANGED <<ver, apiToken>>

\* the next handler, serving request k: it reads the token and the claims,
\* by api.GetJWT(ctx) in api.go and from api.Token, api.Claims in the earlier
\* copy; the handler of a method listed in NoAuth has none to read
Handler(k) ==
    /\ rq[k].pc = "handler"
    /\ rq' = [rq EXCEPT ![k] =
                IF rq[k].kind # "http" /\ Listed(rq[k].method)
                THEN [rq[k] EXCEPT !.pc = "done", !.resp = "OK"]
                ELSE IF ver = "context"
                THEN [rq[k] EXCEPT !.pc = "done", !.resp = "OK",
                                   !.seenToken = rq[k].ctxToken,
                                   !.seenClaims = rq[k].ctxClaims]
                ELSE [rq[k] EXCEPT !.pc = "done", !.resp = "OK",
                                   !.seenToken = apiToken,
                                   !.seenClaims = apiClaims]]
    /\ UNCHANGED <<ver, apiToken, apiClaims>>

\* one step of the server: some request moves
Serve ==
    /\ \E k \in 1..Len(rq) :
          \/ Auth(k)
          \/ AuthGrpcUnary(k)
          \/ AuthGrpcStream(k)
          \/ StoreToken(k)
          \/ StoreClaims(k)
          \/ Handler(k)
    /\ UNCHANGED <<b, s, e0, op, pc, parseVars, matchVars, memVars, utilVars>>

----------------------------------------------------------------------------
(* The specification *)

\* no block extraction call has been made
ParseIdle ==
    /\ i = 1
    /\ inBlock = FALSE
    /\ block = <<>>
    /\ e = NilRe
    /\ blocks = <<>>
    /\ titleCatch = <<>>
    /\ opens = <<>>

\* no match or post-processing call has been made
MatchIdle ==
    /\ pat = NilRe
    /\ found = FALSE
    /\ res = <<>>
    /\ dp = [rmTSLine |-> NilRe, subDurStr |-> FALSE]
    /\ b0 = b
    /\ hist = <<>>

\* nothing is allocated
MemIdle ==
    /\ heap = <<>>
    /\ src = [arr |-> 0, len |-> 0, cap |-> 0]
    /\ rets = <<>>

\* no call of package util has been made
UtilIdle ==
    /\ arg = <<>>
    /\ ret = <<>>
    /\ fd = <<>>
    /\ ei = 0
    /\ ks = <<>>
    /\ start = 0
    /\ rlist = <<>>

\* no request has come in
ApiIdle ==
    /\ ver = "context"
    /\ apiToken = <<>>
    /\ apiClaims = ""
    /\ rq = <<>>

Init ==
    /\ \/ b \in SmallInputs /\ s \in StartPatterns /\ e0 \in EndPatterns
       \/ b = ScenarioLines /\ s \in ScenarioPatterns /\ e0 = NilRe
    /\ op = "none"
    /\ pc = "idle"
    /\ ParseIdle
    /\ MatchIdle
    /\ MemIdle
    /\ UtilIdle
    /\ ApiIdle

Next ==
    \/ CallFetchBlock
    \/ FetchLine
    \/ FetchReturn
    \/ CallCut
    \/ CallSegment

Spec == Init /\ [][Next]_vars

\* the match operations: a block and a pattern, then one call
InitMatch ==
    /\ b \in SmallInputs
    /\ pat \in MatchPatterns
    /\ s = NilRe
    /\ e0 = NilRe
    /\ op = "none"
    /\ pc = "idle"
    /\ ParseIdle
    /\ found = FALSE
    /\ res = <<>>
    /\ dp = [rmTSLine |-> NilRe, subDurStr |-> FALSE]
    /\ b0 = b
    /\ hist = <<>>
    /\ MemIdle
    /\ UtilIdle
    /\ ApiIdle

NextMatch ==
    \/ CallMatchInBlock
    \/ CallSoloMatchInBlock
    \/ CallSliceMatchInBlock
    \/ CallRemoveFromBlock

SpecMatch == InitMatch /\ [][NextMatch]_vars

\* the post-processing operations: a block, then calls on it
InitPost ==
    /\ b \in PostInputs \cup PeriodInputs
    /\ s = NilRe
    /\ e0 = NilRe
    /\ op = "none"
    /\ pc = "idle"
    /\ ParseIdle
    /\ MatchIdle
    /\ MemIdle
    /\ UtilIdle
    /\ ApiIdle

NextPost ==
    \/ CallTrim
    \/ CallRmPeriod
    \/ CallDiffFormat

SpecPost == InitPost /\ [][NextPost]_vars

\* the calls that return blocks, on a receiver with a backing array of its
\* own, then a caller that changes the blocks it got
InitMem ==
    /\ b \in MemInputs
    /\ s = StartIndent
    /\ e0 = EndB
    /\ op = "none"
    /\ pc = "idle"
    /\ ParseIdle
    /\ pat = MatchA
    /\ found = FALSE
    /\ res = <<>>
    /\ dp = [rmTSLine |-> NilRe, subDurStr |-> FALSE]
    /\ b0 = b
    /\ hist = <<>>
    /\ heap = <<b>>
    /\ src = [arr |-> 1, len |-> Len(b), cap |-> Len(b)]
    /\ rets = <<>>
    /\ UtilIdle
    /\ ApiIdle

NextMem ==
    \/ CallFetchBlock
    \/ FetchLine
    \/ MemFetchReturn
    \/ MemCut
    \/ MemSegment
    \/ MemRemoveFromBlock
    \/ MemCopy
    \/ MutOverwrite
    \/ MutAppend
    \/ MutTrim
    \/ MutRmPeriod

SpecMem == InitMem /\ [][NextMem]_vars

\* the derived end pattern: a captured text and a line, then the derivation
InitDerive ==
    /\ \E line \in DeriveLines : b = <<line>>
    /\ res \in CapturedTexts
    /\ s = NilRe
    /\ e0 = NilRe
    /\ op = "none"
    /\ pc = "idle"
    /\ ParseIdle
    /\ pat = NilRe
    /\ found = FALSE
    /\ dp = [rmTSLine |-> NilRe, subDurStr |-> FALSE]
    /\ b0 = b
    /\ hist = <<>>
    /\ MemIdle
    /\ UtilIdle
    /\ ApiIdle

NextDerive == CallDeriveEnd

SpecDerive == InitDerive /\ [][NextDerive]_vars

\* nothing of package tbp is in use
TbpIdle ==
    /\ b = <<>>
    /\ s = NilRe
    /\ e0 = NilRe
    /\ ParseIdle
    /\ MatchIdle
    /\ MemIdle

\* SortMapByField: a list of maps and an order, then the call
InitSort ==
    /\ arg \in [m : MapLists, tseq : OrderSeqs]
    /\ ret = <<>>
    /\ fd = <<>>
    /\ ei = 0
    /\ ks = <<>>
    /\ start = 0
    /\ rlist = <<>>
    /\ op = "none"
    /\ pc = "idle"
    /\ TbpIdle
    /\ ApiIdle

NextSort == CallSortMapByField

SpecSort == InitSort /\ [][NextSort]_vars

\* StrInterpolate: a string, then the call, step by step
InitInterp ==
    /\ arg \in InterpInputs
    /\ ret = <<>>
    /\ fd = <<>>
    /\ ei = 0
    /\ ks = <<>>
    /\ start = 0
    /\ rlist = <<>>
    /\ op = "none"
    /\ pc = "idle"
    /\ TbpIdle
    /\ ApiIdle

NextInterp ==
    \/ CallStrInterpolate
    \/ ElemBegin
    \/ RangeStep
    \/ CombineStep

SpecInterp == InitInterp /\ [][NextInterp]_vars

\* a call that was made runs on: no step of it waits forever
FairInterp ==
    SpecInterp /\ WF_vars(ElemBegin) /\ WF_vars(RangeStep) /\ WF_vars(CombineStep)

\* StringToDuration: a string, then the call
InitDuration ==
    /\ arg \in DurationInputs
    /\ ret = <<>>
    /\ fd = <<>>
    /\ ei = 0
    /\ ks = <<>>
    /\ start = 0
    /\ rlist = <<>>
    /\ op = "none"
    /\ pc = "idle"
    /\ TbpIdle
    /\ ApiIdle

NextDuration == CallStringToDuration

SpecDuration == InitDuration /\ [][NextDuration]_vars

InitEpoch ==
    /\ arg \in EpochInputs
    /\ ret = <<>>
    /\ fd = <<>>
    /\ ei = 0
    /\ ks = <<>>
    /\ start = 0
    /\ rlist = <<>>
    /\ op = "none"
    /\ pc = "idle"
    /\ TbpIdle
    /\ ApiIdle

NextEpoch == CallStringToEpoch

SpecEpoch == InitEpoch /\ [][NextEpoch]_vars

InitApi ==
    /\ ver \in {"context", "fields"}
    /\ rq \in [1..MaxReqs -> Requests(ver)]
    /\ apiToken = <<>>
    /\ apiClaims = ""
    /\ op = "none"
    /\ pc = "idle"
    /\ TbpIdle
    /\ UtilIdle

NextApi == Serve

SpecApi == InitApi /\ [][NextApi]_vars

----------------------------------------------------------------------------
(* Properties *)

RECURSIVE Flatten(_)
\* the lines of a list of blocks, in result order
Flatten(bs) == IF bs = <<>> THEN <<>> ELSE Head(bs) \o Flatten(Tail(bs))

RECURSIVE IsSubseq(_, _)
\* x can be got from y by deleting elements
IsSubseq(x, y) ==
    IF x = <<>> THEN TRUE
    ELSE IF y = <<>> THEN FALSE
    ELSE IF Head(x) = Head(y) THEN IsSubseq(Tail(x), Tail(y))
    ELSE IsSubseq(x, Tail(y))

Min(S) == CHOOSE x \in S : \A y \in S : x <= y

NotBlank(line) == ~IsBlankLine(line)

IsStart(line) == MatchString(s, line)

HasStart(blk) == \E k \in 1..Len(blk) : IsStart(blk[k])

\* the indices of the lines of b that match the start pattern
StartIdx == {k \in 1..Len(b) : IsStart(b[k])}

Returned(o) == pc = "done" /\ op = o

\* C1: the lines of the blocks FetchBlock, Cut and Segment return, in result
\* order, are a subsequence of the input lines: nothing duplicated, reordered
\* or invented.
C1_BlocksAreSubsequence ==
    pc = "done" => IsSubseq(Flatten(blocks), b)

\* C1 witness: FetchBlock returned two blocks and left some input line out
C1_Witness ==
    /\ Returned("FetchBlock")
    /\ Len(blocks) >= 2
    /\ Len(Flatten(blocks)) < Len(b)
    /\ \E k \in 1..Len(b) : MatchString(s, b[k]) /\ MatchString(e, b[k])

\* C2: for a start pattern with two or more capture groups FetchBlock returns
\* titleCatch 1:1 and index-aligned with blocks: equal lengths, and
\* titleCatch[k] is the capture groups after the first of the first line of
\* blocks[k].
C2_TitleCatchAligned ==
    (Returned("FetchBlock") /\ s.ng >= 2) =>
        /\ Len(titleCatch) = Len(blocks)
        /\ \A k \in 1..Len(blocks) :
               /\ blocks[k] # <<>>
               /\ LET l == FindStringSubmatch(s, blocks[k][1])
                  IN l # NoMatch /\ titleCatch[k] = SubSeq(l, 3, Len(l))

\* C3: when FetchBlock reaches the end of the input inside a block the open
\* block is returned as the last element of blocks, so the number of returned
\* blocks is the number of start lines that opened a block.
C3_OpenBlockFlushed ==
    Returned("FetchBlock") =>
        /\ inBlock => (blocks # <<>> /\ blocks[Len(blocks)] = block)
        /\ Len(blocks) = Len(opens)

\* C4: inside a block a non-blank line that matches the end pattern closes the
\* block without being appended to it and is tested against the start pattern
\* in the same iteration: if it matches it is the first line of the next
\* (open) block, otherwise no block is open and the line is in none.
C4_EndLineRetested ==
    [][(pc = "loop" /\ i <= Len(b) /\ NotBlank(b[i]) /\ inBlock /\ MatchString(e, b[i]))
        => /\ blocks' = Append(blocks, block)
           /\ i' = i + 1
           /\ IF IsStart(b[i])
              THEN inBlock' /\ block' = <<b[i]>> /\ opens' = Append(opens, i)
              ELSE ~inBlock' /\ block' = block /\ opens' = opens]_vars

\* C4 witness: line 1 opened a block and line 2 closed it and opened the next
C4_Witness ==
    /\ pc = "loop"
    /\ i = 3
    /\ opens = <<1, 2>>
    /\ blocks = << <<b[1]>> >>
    /\ block = <<b[2]>>
    /\ inBlock

\* the line begins with the text g1 immediately followed by a non-space character
BeginsThenNonSpace(line, g1) ==
    /\ Len(line) > Len(g1)
    /\ SubSeq(line, 1, Len(g1)) = g1
    /\ line[Len(g1) + 1] \notin SpaceChars

\* the block that the start line b[p] opens when its own first capture group
\* decides where it ends
OwnBlock(p) ==
    LET g1 == FindStringSubmatch(s, b[p])[2]
        ends == {q \in (p + 1)..Len(b) : NotBlank(b[q]) /\ BeginsThenNonSpace(b[q], g1)}
        last == IF ends = {} THEN Len(b) ELSE Min(ends) - 1
    IN SelectSeq(SubSeq(b, p, last), NotBlank)

\* C5: with no explicit end pattern every block ends at the first later
\* non-blank line that begins with the first capture group of the block's own
\* start line followed by a non-space character.
C5_OwnEndPattern ==
    (Returned("FetchBlock") /\ e0 = NilRe) =>
        \A k \in 1..Len(blocks) : blocks[k] = OwnBlock(opens[k])

\* the first capture group of the scenario's header line
HeaderGroup == FindStringSubmatch(s, ScenarioLines[1])[2]

TwoTables == <<SubSeq(ScenarioLines, 1, 3), SubSeq(ScenarioLines, 4, 5)>>

\* C6 as stated: on the scenario lines, a start pattern matching the lines
\* that begin with "Interface" and no end pattern, FetchBlock returns the two
\* blocks of lines 1-3 and 4-5.
C6_ScenarioTwoBlocks ==
    (Returned("FetchBlock") /\ b = ScenarioLines /\ e0 = NilRe) => blocks = TwoTables

\* C6 amended: the two blocks are returned when the first capture group is a
\* non-empty proper prefix of "Interface"; when it is the whole word the one
\* block returned holds all five lines.
C6_ScenarioByGroup ==
    (Returned("FetchBlock") /\ b = ScenarioLines /\ e0 = NilRe) =>
        /\ (HeaderGroup # <<>> /\ Len(HeaderGroup) < Len(Word)) => blocks = TwoTables
        /\ HeaderGroup = Word => blocks = <<ScenarioLines>>

\* C6 witness: `^(Inter)face` returned two blocks
C6_Witness ==
    /\ Returned("FetchBlock")
    /\ b = ScenarioLines
    /\ s = WordPrefixRe(5)
    /\ Len(blocks) = 2

IsEnd(line) == MatchString(e0, line)

\* the index of the first line of blk that matches the start pattern
FirstStart(blk) == Min({k \in 1..Len(blk) : IsStart(blk[k])})

\* C7 as stated: with an explicit end pattern Segment and FetchBlock return
\* the same number of blocks and their k-th blocks cover the same lines.
C7_SameBoundaries ==
    (Returned("FetchBlock") /\ e0 # NilRe) => blocks = SegmentBlocks(b, s, e0)

\* no blank line, no line that matches both patterns, and the last line
\* matches the end pattern
Unambiguous ==
    /\ \A k \in 1..Len(b) : NotBlank(b[k]) /\ ~(IsStart(b[k]) /\ IsEnd(b[k]))
    /\ b # <<>> => IsEnd(b[Len(b)])

\* C7 amended: on an unambiguous input Segment and FetchBlock return the same
\* number of blocks, and the k-th block of Segment is the k-th block of
\* FetchBlock preceded by the lines of the segment before its first start
\* line and followed by the end line that closed it.
C7_AgreeUpToEndLine ==
    (Returned("FetchBlock") /\ e0 # NilRe /\ Unambiguous) =>
        LET seg == SegmentBlocks(b, s, e0)
        IN /\ Len(seg) = Len(blocks)
           /\ \A k \in 1..Len(seg) :
                  /\ IsEnd(seg[k][Len(seg[k])])
                  /\ blocks[k] = SubSeq(seg[k], FirstStart(seg[k]), Len(seg[k]) - 1)

\* C7 witness: an unambiguous input whose block has a line between its start
\* line and its end line, and a line before the start line
C7_Witness ==
    /\ Returned("FetchBlock")
    /\ e0 # NilRe
    /\ Unambiguous
    /\ Len(blocks) = 1
    /\ Len(blocks[1]) = 2
    /\ ~IsStart(blocks[1][2])
    /\ ~IsStart(b[1])
    /\ Len(b) = 4

\* C8: Cut on N lines that all match the start pattern returns N blocks, the
\* k-th one holding the k-th line alone.
C8_CutAllStartLines ==
    (Returned("Cut") /\ \A k \in 1..Len(b) : IsStart(b[k])) =>
        blocks = [k \in 1..Len(b) |-> <<b[k]>>]

\* C8 witness: Cut returned on three or more lines that all match, one blank
C8_Witness ==
    /\ Returned("Cut")
    /\ Len(b) >= 3
    /\ \A k \in 1..Len(b) : IsStart(b[k])
    /\ \E k \in 1..Len(b) : IsBlankLine(b[k])
    /\ Len(blocks) = Len(b)

\* C9: every block of Cut has one line matching the start pattern, its first;
\* the blocks together are the input from the first start line on; there are
\* as many blocks as start lines.
C9_CutPartitions ==
    Returned("Cut") =>
        /\ \A k \in 1..Len(blocks) :
               /\ blocks[k] # <<>>
               /\ {j \in 1..Len(blocks[k]) : IsStart(blocks[k][j])} = {1}
        /\ Flatten(blocks) =
               IF StartIdx = {} THEN <<>> ELSE SubSeq(b, Min(StartIdx), Len(b))
        /\ Len(blocks) = Cardinality(StartIdx)

\* C9 witness: Cut dropped leading lines, returned two blocks and kept a blank line
C9_Witness ==
    /\ Returned("Cut")
    /\ StartIdx # {}
    /\ Min(StartIdx) > 1
    /\ Len(blocks) = 2
    /\ \E k \in 1..2 : \E j \in 1..Len(blocks[k]) : IsBlankLine(blocks[k][j])

RECURSIVE SegmentsFrom(_)
\* the segments of b[p..]: each runs to the next line that matches the end
\* pattern, the last one to the end of the input
SegmentsFrom(p) ==
    IF p > Len(b) THEN <<>>
    ELSE LET ends == {q \in p..Len(b) : IsEnd(b[q])}
             last == IF ends = {} THEN Len(b) ELSE Min(ends)
         IN <<SubSeq(b, p, last)>> \o SegmentsFrom(last + 1)

\* C10: Segment returns, in order and whole, the segments (each closed by and
\* including an end line, plus the trailing lines) that hold a start line.
C10_SegmentKeepsStartSegments ==
    Returned("Segment") => blocks = SelectSeq(SegmentsFrom(1), HasStart)

\* C10 witness: Segment dropped a segment, returned one that an end line
\* closes, and the trailing one
C10_Witness ==
    /\ Returned("Segment")
    /\ Len(blocks) = 2
    /\ Len(SegmentsFrom(1)) = 3
    /\ IsEnd(blocks[1][Len(blocks[1])])
    /\ ~IsEnd(blocks[1][1])
    /\ ~IsEnd(blocks[2][Len(blocks[2])])

\* C11: the titleCatch of Cut and of Segment has one entry per returned
\* block, the k-th being all capture groups of the start pattern on the first
\* line of blocks[k] that matches it.
C11_CutSegmentTitlesInSync ==
    (Returned("Cut") \/ Returned("Segment")) =>
        /\ Len(titleCatch) = Len(blocks)
        /\ \A k \in 1..Len(blocks) :
               /\ HasStart(blocks[k])
               /\ titleCatch[k] =
                      Tail(FindStringSubmatch(s, blocks[k][FirstStart(blocks[k])]))

\* C11 witness: Segment returned two blocks, one with two start lines whose
\* captures differ
C11_Witness ==
    /\ Returned("Segment")
    /\ Len(blocks) = 2
    /\ \E k \in 1..2 : \E j \in 2..Len(blocks[k]) :
           /\ IsStart(blocks[k][1])
           /\ IsStart(blocks[k][j])
           /\ FindStringSubmatch(s, blocks[k][j]) # FindStringSubmatch(s, blocks[k][1])
           /\ titleCatch[k] = Tail(FindStringSubmatch(s, blocks[k][1]))

IsHit(line) == MatchString(pat, line)

NotHit(line) == ~MatchString(pat, line)

\* the lines of b that match pat, in order
Hits == SelectSeq(b, IsHit)

\* C12: MatchInBlock returns (false, nil) when no line matches; otherwise true
\* and one row per matching line, in line order, each row holding all the
\* capture groups ("" for a group that took no part), non-matching lines
\* giving no row.
C12_MatchInBlockRows ==
    Returned("MatchInBlock") =>
        /\ found = (Hits # <<>>)
        /\ Len(res) = Len(Hits)
        /\ \A k \in 1..Len(res) :
               /\ Len(res[k]) = pat.ng
               /\ res[k] = Tail(FindStringSubmatch(pat, Hits[k]))
               /\ (pat = MatchOpt /\ Hits[k] = <<"b">>) => res[k] = << <<>>, <<"b">> >>

\* C12 witness: rows for two of three lines, one with a group that took no part
C12_Witness ==
    /\ Returned("MatchInBlock")
    /\ Len(b) >= 3
    /\ Len(res) = 2
    /\ \E k \in 1..2 : res[k] = << <<>>, <<"b">> >>

\* C13: for a pattern with a capture group SliceMatchInBlock returns the flag
\* of MatchInBlock and the first capture of every matching line in order;
\* SoloMatchInBlock returns the flag and the first capture of the first
\* matching line; both return the zero value and false when nothing matches.
C13_SoloAndSlice ==
    (pc = "done" /\ pat.ng >= 1) =>
        /\ op = "SliceMatchInBlock" =>
               /\ found = (Hits # <<>>)
               /\ res = [k \in 1..Len(Hits) |-> FindStringSubmatch(pat, Hits[k])[2]]
        /\ op = "SoloMatchInBlock" =>
               /\ found = (Hits # <<>>)
               /\ res = IF Hits = <<>> THEN <<>> ELSE FindStringSubmatch(pat, Hits[1])[2]

\* C13 witness: SoloMatchInBlock returned the first capture of the first of
\* two matching lines whose first captures differ
C13_Witness ==
    /\ Returned("SoloMatchInBlock")
    /\ pat.ng >= 1
    /\ found
    /\ Len(Hits) >= 2
    /\ FindStringSubmatch(pat, Hits[1])[2] # FindStringSubmatch(pat, Hits[2])[2]
    /\ ~IsHit(b[1])

\* C14: RemoveFromBlock returns the lines that do not match, in order, and a
\* flag that is true exactly when some line matched; ["a","b","a"] and a
\* pattern matching "a" give (true, ["b"]).
C14_RemoveFromBlock ==
    Returned("RemoveFromBlock") =>
        /\ res = SelectSeq(b, NotHit)
        /\ found = (\E k \in 1..Len(b) : IsHit(b[k]))
        /\ (b = << <<"a">>, <<"b">>, <<"a">> >> /\ pat = MatchA) =>
               (found /\ res = << <<"b">> >>)

\* C14 witness: the example of the claim
C14_Witness ==
    /\ Returned("RemoveFromBlock")
    /\ b = << <<"a">>, <<"b">>, <<"a">> >>
    /\ pat = MatchA
    /\ res = << <<"b">> >>

\* C15: no block parser operation aborts on a line sequence and compiled
\* patterns with zero or more capture groups (a nil end pattern handed to
\* Segment is not a compiled pattern).
C15_NeverAborts ==
    pc = "panic" => (op = "Segment" /\ e0 = NilRe)

\* the last change a caller made: which block, and how
LastMut == hist[Len(hist)]

\* C16: the blocks FetchBlock, Cut, Segment, RemoveFromBlock and Copy return
\* are copies: no step, a call or a caller's change of a returned block
\* (overwriting a line, appending, Trim, RmPeriod), changes the lines of the
\* receiver, and a change of one returned block leaves the lines of the other
\* blocks of the same call as they were
C16_ReturnedBlocksAreCopies ==
    [][/\ View(heap', src') = View(heap, src)
       /\ hist' # hist =>
              \A j \in 1..Len(rets) :
                  j # hist'[Len(hist')].k => View(heap', rets'[j]) = View(heap, rets[j])]_vars

\* Cut returned two blocks or more; the caller overwrote a line of one and
\* then appended to one: the first shows the written line, the receiver
\* shows the lines it had
C16_Witness ==
    /\ op = "Cut"
    /\ Len(rets) >= 2
    /\ Len(hist) = 2
    /\ hist[1].m = "Overwrite"
    /\ LastMut.m = "Append"
    /\ \E j \in 1..rets[hist[1].k].len : View(heap, rets[hist[1].k])[j] = NewLine
    /\ View(heap, src) = b0
    /\ \E j \in 1..Len(rets) : j # hist[1].k /\ j # LastMut.k /\ View(heap, rets[j]) = blocks[j]

\* C17: Trim is idempotent: a second Trim leaves the block as the first
\* Trim left it.
C17_TrimIdempotent ==
    [][(op = "Trim" /\ op' = "Trim") => b' = b]_vars

\* C17 witness: two Trim calls, the first of which changed the block by
\* collapsing blank lines and trimming a line
C17_Witness ==
    /\ hist = <<"Trim", "Trim">>
    /\ Len(b) < Len(b0)
    /\ \E k \in 1..Len(b0) : NotBlank(b0[k]) /\ TrimRight(b0[k]) # b0[k]
    /\ b # <<>>

\* o is l without its trailing spaces, tabs, CRs and LFs
IsRightTrimOf(o, l) ==
    /\ Len(o) <= Len(l)
    /\ SubSeq(l, 1, Len(o)) = o
    /\ \A k \in (Len(o) + 1)..Len(l) : l[k] \in CutSet
    /\ o = <<>> \/ o[Len(o)] \notin CutSet

\* the indices of the non-blank lines of blk, in order
NonBlankIdx(blk) == SelectSeq([k \in 1..Len(blk) |-> k], LAMBDA k : NotBlank(blk[k]))

\* whether blk has a blank line in its j-th gap: before its j-th non-blank
\* line and after the one before (j = 1: from the top; past the last
\* non-blank line: to the bottom)
GapHasBlank(blk, j) ==
    LET nb == NonBlankIdx(blk)
        lo == IF j = 1 THEN 0 ELSE nb[j - 1]
        hi == IF j > Len(nb) THEN Len(blk) + 1 ELSE nb[j]
    IN hi - lo > 1

\* C18: after Trim no line ends in a space, tab, CR or LF, the blank lines
\* are empty, no two adjacent lines are empty, every run of blank lines of
\* the input is one empty line, and the non-blank lines keep their order.
C18_TrimNormalForm ==
    hist = <<"Trim">> =>
        /\ \A k \in 1..Len(b) : b[k] = <<>> \/ b[k][Len(b[k])] \notin CutSet
        /\ \A k \in 1..Len(b) : IsBlankLine(b[k]) => b[k] = <<>>
        /\ \A k \in 1..(Len(b) - 1) : ~(b[k] = <<>> /\ b[k + 1] = <<>>)
        /\ Len(NonBlankIdx(b)) = Len(NonBlankIdx(b0))
        /\ \A j \in 1..Len(NonBlankIdx(b)) :
               IsRightTrimOf(b[NonBlankIdx(b)[j]], b0[NonBlankIdx(b0)[j]])
        /\ \A j \in 1..(Len(NonBlankIdx(b)) + 1) : GapHasBlank(b, j) = GapHasBlank(b0, j)

\* C18 witness: Trim turned a run of two blank lines, one of them
\* white space, into one empty line and trimmed a non-blank line
C18_Witness ==
    /\ hist = <<"Trim">>
    /\ Len(b0) = 3
    /\ Len(b) = 2
    /\ \E k \in 1..3 : b0[k] = <<"\f">>
    /\ \E k \in 1..3 : b0[k] = <<"a", " ", "\t">>
    /\ \E k \in 1..2 : b[k] = <<"a">>

\* C19: RmPeriod replaces exactly the duration token by "####" and leaves the
\* rest of the line, the separator before the token included, unchanged:
\* "uptime 3d04h22m" becomes "uptime ####".
C19_RmPeriodKeepsSeparator ==
    hist = <<"RmPeriod">> =>
        \A k \in 1..Len(b0) :
            b0[k] = LineUptime => b[k] = <<"u", "p", "t", "i", "m", "e", " ">> \o Placeholder

RECURSIVE SplitLines(_, _)
\* the lines of the string str, each ended by "\n"; cur is the line so far
SplitLines(str, cur) ==
    IF str = <<>> THEN (IF cur = <<>> THEN <<>> ELSE <<cur>>)
    ELSE IF Head(str) = "\n" THEN <<cur>> \o SplitLines(Tail(str), <<>>)
    ELSE SplitLines(Tail(str), Append(cur, Head(str)))

\* C20: the string DiffFormat returns never holds two consecutive empty
\* lines, whatever the removal and substitution patterns.
C20_DiffFormatCollapsesBlank ==
    Returned("DiffFormat") =>
        LET out == SplitLines(res, <<>>)
        IN \A k \in 1..(Len(out) - 1) : ~(out[k] = <<>> /\ out[k + 1] = <<>>)

\* C21: FetchBlock returns nil blocks when no line matches the start pattern,
\* and a nil titleCatch, never a list of nils, whenever no title was
\* captured: for every start pattern with at most one capture group, however
\* many blocks were found
C21_NilWhenNothingCaught ==
    Returned("FetchBlock") =>
        /\ (~\E k \in 1..Len(b) : IsStart(b[k])) => blocks = <<>> /\ titleCatch = <<>>
        /\ s.ng <= 1 => titleCatch = <<>>
        /\ (\A k \in 1..Len(titleCatch) : titleCatch[k] = <<>>) => titleCatch = <<>>

\* C21 witness: a start pattern with one group opened two blocks, and the
\* call returned both with a nil titleCatch
C21_Witness ==
    /\ Returned("FetchBlock")
    /\ s.ng = 1
    /\ Len(opens) >= 2
    /\ Len(blocks) >= 2
    /\ titleCatch = <<>>

\* a block as the start and end patterns define it
WellFormedBlock(blk) ==
    /\ blk # <<>>
    /\ IsStart(blk[1])
    /\ \A k \in 1..Len(blk) : NotBlank(blk[k])
    /\ \A k \in 2..Len(blk) : ~IsEnd(blk[k])

\* C26: with an explicit end pattern every block FetchBlock returns is
\* non-empty, begins with a line that matches the start pattern, holds no
\* blank line and, after its first line, no line that matches the end
\* pattern; an iteration on a blank line opens, extends and closes nothing
C26_BlocksWellFormed ==
    [][(e0 # NilRe /\ op' = "FetchBlock") =>
           /\ pc' = "done" => \A k \in 1..Len(blocks') : WellFormedBlock(blocks'[k])
           /\ (pc = "loop" /\ i <= Len(b) /\ IsBlankLine(b[i])) =>
                  UNCHANGED <<inBlock, block, e, blocks, titleCatch, opens>>]_vars

\* C26 witness: a returned block of two lines or more that was closed by an
\* end line, with a blank input line between its first and its last line
C26_Witness ==
    /\ Returned("FetchBlock")
    /\ e0 # NilRe
    /\ blocks # <<>>
    /\ Len(blocks[1]) >= 2
    /\ \E k \in 1..Len(b) : \E n \in 1..Len(b) :
           /\ opens[1] < k /\ k < n - 1
           /\ IsBlankLine(b[k])
           /\ IsEnd(b[n])
           /\ blocks[1] = SubSeq(b, opens[1], opens[1]) \o SubSeq(b, k + 1, n - 1)

\* C27: for every captured text, a backslash or a metacharacter in it
\* included, the derived end pattern compiles, and it matches exactly the lines
\* that begin with that text immediately followed by a non-space character
C27_DerivedIsLiteralPrefix ==
    op = "DeriveEnd" =>
        /\ pc # "panic"
        /\ pc = "done" => (found <=> BeginsThenNonSpace(b[1], res))

\* the value v comes before the value w in the order of the call: in
\* arg.tseq, or by number when arg.tseq is nil
PosIn(sq, v) == Min({k \in 1..Len(sq) : sq[k] = v})

InOrder(v) == arg.tseq.nil \/ \E k \in 1..Len(arg.tseq.v) : arg.tseq.v[k] = v

ComesBefore(v, w) ==
    IF arg.tseq.nil THEN NatureLess(v, w)
    ELSE PosIn(arg.tseq.v, v) < PosIn(arg.tseq.v, w)

\* C22: among the returned maps whose value is in the order sequence, a map
\* whose value comes earlier is never returned after a map whose value comes
\* later, lists with repeated values included
C22_SortedByField ==
    Returned("SortMapByField") =>
        \A x, y \in 1..Len(ret) :
            (/\ x < y
             /\ HasGv(ret[x]) /\ HasGv(ret[y])
             /\ InOrder(Gv(ret[x])) /\ InOrder(Gv(ret[y])))
                => ~ComesBefore(Gv(ret[y]), Gv(ret[x]))

RECURSIVE RangeAlts(_, _, _, _)
\* a, a+s, a+2s, ..., up to at most b, as decimal strings (n: how many more
\* to list at most)
RangeAlts(a, bnd, stp, n) ==
    IF a > bnd \/ n = 0 THEN <<>> ELSE <<Itoa(a)>> \o RangeAlts(a + stp, bnd, stp, n - 1)

\* the alternatives of a token as C23 gives them
Alts(str, tk) ==
    IF ListAt(ElemText(str, tk), 1).ok
    THEN ListItems(ListAt(ElemText(str, tk), 1).g1)
    ELSE RangeAlts(ParseInt(tk.g1), ParseInt(tk.g2), StepOf(tk), MaxKs + 1)

RECURSIVE Combos(_, _, _)
\* str from position k on, one string per combination of the alternatives of
\* the tokens toks, the first token varying slowest
Combos(str, k, toks) ==
    IF toks = <<>> THEN <<SubSeq(str, k, Len(str))>>
    ELSE LET tk == Head(toks)
             alts == Alts(str, tk)
             tails == Combos(str, tk.stop + 1, Tail(toks))
         IN Flat([x \in 1..Len(alts) |->
                     [y \in 1..Len(tails) |->
                         SubSeq(str, k, tk.from - 1) \o alts[x] \o tails[y]]])

\* C23: StrInterpolate returns nil for an input without token, and else one
\* string per combination of the alternatives of the tokens, the first token
\* varying slowest; a range token gives a, a+s, ... up to at most b, a list
\* token its items, trimmed
C23_OnePerCombination ==
    Returned("StrInterpolate") =>
        IF FindAll(arg, 1) = <<>> THEN ret = NilSeq
        ELSE ret = SomeSeq(Combos(arg, 1, FindAll(arg, 1)))

\* C30: StrInterpolate terminates on every input: a call that was made
\* returns, a range token with step 0 or with a start beyond its end included
C30_Terminates == (op = "StrInterpolate") ~> (pc = "done")

\* a day
Day == 24 * Hour

\* C24: StringToDuration returns N days plus the duration of <rest> for
\* "<N>d<rest>" with an integer N and a valid duration <rest>, the parsed
\* duration for a string without "d", and 0 for an invalid string
C24_DaysOnTopOfDuration ==
    Returned("StringToDuration") =>
        LET k == IndexOf(arg, <<"d">>, 1)
            days == SubSeq(arg, 1, k - 1)
            rest == SubSeq(arg, k + 1, Len(arg))
        IN IF k = 0
           THEN ret = (IF ParseDuration(arg).ok THEN ParseDuration(arg).d ELSE 0)
           ELSE IF IsInt(days) /\ ParseDuration(rest).ok
           THEN ret = ParseInt(days) * Day + ParseDuration(rest).d
           ELSE ret = 0

\* the string is written in one of the layouts StringToEpoch tries
Parsable(str) == \E k \in 1..Len(Formats) : str.shape = Formats[k]

\* C29: StringToEpoch returns a non-nil error for every string that parses
\* under none of the supported formats, and a nil error only together with
\* the epoch of a string that parsed
C29_ErrorOnFailure ==
    Returned("StringToEpoch") =>
        /\ ~Parsable(arg) => ret.err # "nil"
        /\ ret.err = "nil" =>
              Parsable(arg) /\ ret.epoch = arg.wall - TzInfo(arg.zone)

\* the request was put through the checks: Auth always, an interceptor for
\* every method not listed in NoAuth
Checked(r) == r.kind = "http" \/ r.method \notin NoAuth

\* the uid of the token a header carries
UidOf(hdr) == JwtDecode(hdr[Len(hdr)]).uid

\* C25: when authenticated requests are interleaved through the same API
\* value, the handler of each observes the token and the claims of its own
\* request
C25_OwnTokenAndClaims ==
    \A k \in 1..Len(rq) :
        rq[k].pc = "done" /\ rq[k].called /\ Checked(rq[k]) =>
            /\ rq[k].seenToken = rq[k].hdr
            /\ rq[k].seenClaims = UidOf(rq[k].hdr)

\* the request presents one token, of three segments, signed with an HMAC
\* method under TokenSec, and not expired
Authentic(r) ==
    /\ r.meta = "field"
    /\ \E word \in JwtTokens :
          /\ SelectSeq(r.hdr, LAMBDA x : x # Bearer) = <<word>>
          /\ JwtDecode(word).segs = 3
          /\ JwtDecode(word).alg \in HMACAlgs
          /\ JwtDecode(word).key = TokenSec
          /\ ~JwtDecode(word).expired

\* C28: the handler is called only for a request whose token is authentic,
\* or for a gRPC method listed in NoAuth; a request whose handler was not
\* called is answered 401 / Unauthenticated
C28_HandlerOnlyAfterAuth ==
    \A k \in 1..Len(rq) :
        /\ rq[k].called =>
              \/ Authentic(rq[k])
              \/ rq[k].kind # "http" /\ rq[k].method \in NoAuth
        /\ rq[k].pc = "done" /\ ~rq[k].called =>
              rq[k].resp = Unauthorized(rq[k].kind)
        /\ rq[k].pc = "done" /\ rq[k].called => rq[k].resp = "OK"

\* a request signed with another key was refused, and the handler of a
\* request with an authentic token has run
C28_Witness ==
    \E k, j \in 1..Len(rq) :
        /\ rq[k].hdr = <<Bearer, "hs.u1.otherkey">>
        /\ rq[k].pc = "done" /\ ~rq[k].called
        /\ rq[k].resp = Unauthorized(rq[k].kind)
        /\ Authentic(rq[j]) /\ rq[j].called /\ rq[j].pc = "done"

====
